---- MODULE Spec2Model ----
(***************************************************************************)
(* The storm data ETL service, in parts with a specification each:         *)
(*   Spec           the batch extract-transform-load loop (package         *)
(*                  pipeline: Pipeline.Run, processBatch, transformAndLoad,*)
(*                  backoffOrStop, commitOffset, nextBackoff,              *)
(*                  sleepWithContext);                                     *)
(*   SpecLRU        the lruCache of package mapbox under get and put;      *)
(*   SpecGeo        the CachedGeocoder around an inner geocoder;           *)
(*   SpecTransform  one StormTransformer.Transform call: ParseRawEvent,    *)
(*                  EnrichStormEvent, EnrichWithGeocoding,                 *)
(*                  SerializeStormEvent;                                   *)
(*   SpecEnrich     EnrichStormEvent applied twice to a parsed event;      *)
(*   SpecId         ParseRawEvent applied to two messages, for their ids;  *)
(*   SpecFair       Spec with the Run goroutine scheduled fairly, for      *)
(*                  termination;                                           *)
(*   SpecList       the lruCache for every capacity from 1 to MaxEntries;  *)
(*   SpecConc       goroutines calling one CachedGeocoder concurrently.    *)
(*                                                                         *)
(* The extractor, the transformer, the loader and the per-message Commit   *)
(* closures are interfaces the pipeline is constructed with; their results *)
(* (error, empty batch, batch, transform failure, commit failure) are the  *)
(* inputs of the model and are chosen with \E.  History variables record   *)
(* every call the loop makes, in order.                                    *)
(***************************************************************************)
EXTENDS Integers, Sequences, FiniteSets, TLC

\* ---------------------------------------------------------------- bounds
BatchSize == 2        \* p.batchSize: upper bound on the length of one batch
MaxMsgs == 2          \* messages the extractor hands out in one run
MaxStreak == 7        \* backoff sleeps completed in a row without a reset
NumPartitions == 2    \* partitions of the source topic
CacheCap == 2         \* maxEntries of the geocoding cache
MaxOps == 4           \* get/put calls on the lruCache in one run
MaxLookups == 4       \* ForwardGeocode/ReverseGeocode calls on the CachedGeocoder in one run
MaxFairMsgs == 1      \* messages extracted in a run checked for termination
MaxEntries == 3       \* largest maxEntries of an lruCache checked on its own
MaxAllocs == 4        \* entry objects an lruCache checked on its own allocates
NumCallers == 2       \* goroutines calling the CachedGeocoder at the same time
MaxCalls == 3         \* calls they make on it altogether

\* ------------------------------------------------------ program constants
InitialBackoff == 200     \* ms
MaxBackoff == 5000        \* ms
BackoffFactor == 2

Partitions == 0 .. (NumPartitions - 1)

VARIABLES
    pc,              \* position of the goroutine executing Run
    cancelled,       \* ctx.Err() != nil
    backoff,         \* Run's local backoff, in ms
    ready,           \* p.ready
    rawBatch,        \* processBatch: rawBatch, as message ids
    idx,             \* index of the range loop in progress
    outBatch,        \* transformAndLoad: outBatch (output event of message id)
    successfulRaws,  \* transformAndLoad: successfulRaws
    metrics,         \* consumed, produced, transformErrors, running
    runResult,       \* "running", or what Run returned: "nil" / "error"
    msgs,            \* history: every message extracted, indexed by id
    nextOff,         \* source: next offset to fetch, per partition
    poison,          \* history: ids whose Transform returned an error
    warned,          \* history: ids logged by "transform failed, skipping message"
    loadCalls,       \* history: every LoadBatch call, [batch, ok]
    commits,         \* history: ids whose Commit was invoked, in order
    commitWarned,    \* history: number of "commit offset failed" log lines
    lateExtract,     \* ExtractBatch calls started with ctx already cancelled
    lateLoad,        \* LoadBatch calls started with ctx already cancelled
    lateTransform,   \* ids whose Transform started with ctx already cancelled
    lateCommit,      \* ids whose Commit started with ctx already cancelled
    streak,          \* backoff sleeps completed since the backoff was last reset
    loadFails        \* history: iterations in a row that ended in a LoadBatch error

\* the geocoding cache and the transform engine have their own
\* specifications below; the pipeline loop leaves their variables alone
VARIABLES
    cache,           \* lruCache: maxEntries, entries (map), heap of entry objects, head, tail
    used,            \* history: keys put or successfully got, most recent first
    opLog            \* history: the get/put calls made on the lruCache and what they returned

VARIABLES
    answered,        \* history: key -> the result last stored for it and the method that stored it
    lastOutcome,     \* history: key -> how the latest lookup of it ended: hit / stored / empty / err
    lastLookup       \* history: the latest CachedGeocoder call: what it did and returned

\* goroutines calling one CachedGeocoder at the same time
VARIABLES
    mu,              \* lruCache.mu: NIL when unlocked, else the caller holding it
    callers          \* per caller: where its ForwardGeocode/ReverseGeocode call is

\* one call of StormTransformer.Transform, function by function
VARIABLES
    raw,             \* the RawEvent handed to Transform
    geocoder,        \* t.geocoder: "nil" or "set"
    stage,           \* how far the call got
    event,           \* the StormEvent in hand
    before,          \* history: the StormEvent before the latest function was applied
    providerCalls,   \* history: the calls made on the geocoder, in order
    clock,           \* the instant clock.Now() returns next
    output           \* what the call returned: the OutputEvent and the error

cacheVars == <<cache, used, opLog>>
geoVars == <<answered, lastOutcome, lastLookup>>
xformVars == <<raw, geocoder, stage, event, before, providerCalls, clock, output>>
concVars == <<mu, callers>>
auxVars == <<cacheVars, geoVars, xformVars, concVars>>

loopVars == <<rawBatch, idx, outBatch, successfulRaws>>
commitVars == <<commits, commitWarned, lateCommit>>
srcVars == <<msgs, nextOff>>
vars == <<pc, cancelled, backoff, ready, rawBatch, idx, outBatch, successfulRaws,
          metrics, runResult, msgs, nextOff, poison, warned, loadCalls, commits,
          commitWarned, lateExtract, lateLoad, lateTransform, lateCommit, streak,
          loadFails>>

Ids == 1 .. Len(msgs)

Min(a, b) == IF a < b THEN a ELSE b

\* Range of a sequence
Range(s) == {s[i] : i \in 1 .. Len(s)}

\* ------------------------------------------------------------ pure helpers

\* nextBackoff without the cap at maxBackoff
nextBackoff_NoCap(current, maxBackoff) == current * BackoffFactor

\* nextBackoff as the documented table has it: the maximum right after 1.6 s
nextBackoff_AsDocumented(current, maxBackoff) ==
    LET next == current * BackoffFactor
    IN  IF next > 1600 THEN maxBackoff ELSE next

\* nextBackoff(current, maxBackoff)
nextBackoff(current, maxBackoff) ==
    LET next == current * BackoffFactor
    IN  IF next > maxBackoff THEN maxBackoff ELSE next

\* The batch the extractor returns: n messages, the i-th from partition
\* parts[i] at the next unfetched offset of that partition, carrying a Commit
\* closure when caps[i].
NewBatch(n, parts, caps) ==
    [i \in 1 .. n |->
        [part  |-> parts[i],
         off   |-> nextOff[parts[i]]
                     + Cardinality({j \in 1 .. (i - 1) : parts[j] = parts[i]}),
         cap   |-> caps[i],
         batch |-> IF Len(msgs) = 0 THEN 1 ELSE msgs[Len(msgs)].batch + 1]]


\* ------------------------------------------------------- float64 values

\* A float64 is a finite number, kept as an integer count of a unit fixed per
\* field (1e-7 degree for coordinates, 1e-4 for magnitudes and distances,
\* 1e-2 for confidences), or NaN, or an infinity (v is its sign).
Num(v) == [k |-> "num", v |-> v]
NaN == [k |-> "nan", v |-> 0]
Inf(sign) == [k |-> "inf", v |-> sign]

\* x == 0, x != 0
FIsZero(x) == x.k = "num" /\ x.v = 0

\* x < c, x <= c, x >= c, x == c for a finite c given in the unit of x; every
\* comparison with NaN is false
FLt(x, c) == (x.k = "num" /\ x.v < c) \/ (x.k = "inf" /\ x.v < 0)
FLe(x, c) == (x.k = "num" /\ x.v <= c) \/ (x.k = "inf" /\ x.v < 0)
FGe(x, c) == (x.k = "num" /\ x.v >= c) \/ (x.k = "inf" /\ x.v > 0)
FEq(x, c) == x.k = "num" /\ x.v = c

\* x / 100.0
FDiv100(x) ==
    IF x.k # "num" THEN x
    ELSE IF x.v >= 0 THEN Num(x.v \div 100) ELSE Num(-((-x.v) \div 100))

\* json.Marshal accepts the float
FFinite(x) == x.k = "num"

\* --------------------------------------------------------------- strings

At(s, i) == SubSeq(s, i, i)

\* the first index of character c in s, 0 when it does not occur
IndexIn(c, s) ==
    IF \E i \in 1 .. Len(s) : At(s, i) = c
       THEN CHOOSE i \in 1 .. Len(s) : At(s, i) = c /\ \A j \in 1 .. (i - 1) : At(s, j) # c
       ELSE 0

UpperAlpha == "ABCDEFGHIJKLMNOPQRSTUVWXYZ"
LowerAlpha == "abcdefghijklmnopqrstuvwxyz"
Digits == "0123456789"

IsSpace(c) == c \in {" ", "\t", "\n", "\r"}
IsDigit(c) == IndexIn(c, Digits) # 0

\* strings.TrimSpace
RECURSIVE TrimLeft(_)
TrimLeft(s) == IF s # "" /\ IsSpace(At(s, 1)) THEN TrimLeft(SubSeq(s, 2, Len(s))) ELSE s

RECURSIVE TrimRight(_)
TrimRight(s) ==
    IF s # "" /\ IsSpace(At(s, Len(s))) THEN TrimRight(SubSeq(s, 1, Len(s) - 1)) ELSE s

TrimSpace(s) == TrimRight(TrimLeft(s))

\* strings.ToLower, on ASCII
RECURSIVE ToLower(_)
ToLower(s) ==
    IF s = "" THEN ""
    ELSE LET c == At(s, 1)
             i == IndexIn(c, UpperAlpha)
         IN  (IF i = 0 THEN c ELSE At(LowerAlpha, i)) \o ToLower(SubSeq(s, 2, Len(s)))

\* strings.EqualFold, on ASCII
EqualFold(a, b) == ToLower(a) = ToLower(b)

\* strings.TrimPrefix
TrimPrefix(s, p) ==
    IF Len(s) >= Len(p) /\ SubSeq(s, 1, Len(p)) = p THEN SubSeq(s, Len(p) + 1, Len(s)) ELSE s

AllDigits(s) == \A i \in 1 .. Len(s) : IsDigit(At(s, i))

\* the number a string of decimal digits denotes
RECURSIVE DigitsVal(_)
DigitsVal(s) ==
    IF s = "" THEN 0
    ELSE DigitsVal(SubSeq(s, 1, Len(s) - 1)) * 10 + (IndexIn(At(s, Len(s)), Digits) - 1)

RECURSIVE Pow10(_)
Pow10(n) == IF n = 0 THEN 1 ELSE 10 * Pow10(n - 1)

\* strconv.ParseFloat(s, 64) for the notations the inputs use: an optional
\* sign, decimal digits with at most one point and at most dec digits after
\* it, "nan", and a signed "inf" or "infinity" in any letter case. The value
\* is counted in units of 10^-dec.
ParseFloat(s, dec) ==
    LET signed == s # "" /\ At(s, 1) \in {"+", "-"}
        sign   == IF s # "" /\ At(s, 1) = "-" THEN -1 ELSE 1
        body   == IF signed THEN SubSeq(s, 2, Len(s)) ELSE s
        dot    == IndexIn(".", body)
        ip     == IF dot = 0 THEN body ELSE SubSeq(body, 1, dot - 1)
        fp     == IF dot = 0 THEN "" ELSE SubSeq(body, dot + 1, Len(body))
    IN  IF ToLower(s) = "nan" THEN [ok |-> TRUE, f |-> NaN]
        ELSE IF ToLower(body) \in {"inf", "infinity"} THEN [ok |-> TRUE, f |-> Inf(sign)]
        ELSE IF AllDigits(ip) /\ AllDigits(fp) /\ Len(ip) + Len(fp) > 0 /\ Len(fp) <= dec
                THEN [ok |-> TRUE,
                      f  |-> Num(sign * (DigitsVal(ip) * Pow10(dec)
                                         + DigitsVal(fp) * Pow10(dec - Len(fp))))]
                ELSE [ok |-> FALSE, f |-> Num(0)]

\* strconv.Atoi: an optional sign and decimal digits
Atoi(s) ==
    LET signed == s # "" /\ At(s, 1) \in {"+", "-"}
        body   == IF signed THEN SubSeq(s, 2, Len(s)) ELSE s
    IN  IF body # "" /\ AllDigits(body)
           THEN [ok |-> TRUE, n |-> (IF At(s, 1) = "-" THEN -1 ELSE 1) * DigitsVal(body)]
           ELSE [ok |-> FALSE, n |-> 0]


\* ----------------------------------------------------------- zero values

\* A time.Time: the wall clock reading (day counted from 0001-01-01) in a
\* zone off hours east of UTC.
ZeroTime == [day |-> 0, hour |-> 0, min |-> 0, sec |-> 0, off |-> 0]

\* RawCSVRecord{}
ZeroRec ==
    [Time |-> "", Size |-> "", FScale |-> "", Speed |-> "", Location |-> "", County |-> "",
     State |-> "", Lat |-> "", Lon |-> "", Comments |-> "", EventType |-> ""]

\* StormEvent{}; a nil pointer is the empty sequence, a pointer to v is <<v>>
ZeroEvent ==
    [id |-> "", eventType |-> "", lat |-> Num(0), lon |-> Num(0),
     magnitude |-> Num(0), unit |-> "", severity |-> <<>>,
     eventTime |-> ZeroTime,
     locRaw |-> "", locName |-> "", locDistance |-> <<>>, locDirection |-> <<>>,
     state |-> "", county |-> "",
     comments |-> "", sourceOffice |-> "", timeBucket |-> ZeroTime,
     formattedAddress |-> "", placeName |-> "", geoConfidence |-> Num(0), geoSource |-> "",
     rawPayload |-> ZeroRec, processedAt |-> 0]

\* OutputEvent{}
ZeroOutput == [key |-> "", fields |-> ZeroEvent, omitted |-> {},
               headers |-> [type |-> "", processed_at |-> 0]]

\* no Transform call is in progress
XformIdle ==
    /\ raw = [json |-> "object", rec |-> ZeroRec, timestamp |-> ZeroTime]
    /\ geocoder = "nil"
    /\ stage = "idle"
    /\ event = ZeroEvent
    /\ before = ZeroEvent
    /\ providerCalls = <<>>
    /\ clock = 1
    /\ output = [returned |-> FALSE, err |-> "", out |-> ZeroOutput]


\* ------------------------------------------------------------- lruCache

\* the nil *entry; entry objects are numbered from 1 in allocation order
NIL == 0

\* domain.GeocodingResult{}
ZeroResult == [lat |-> Num(0), lon |-> Num(0), addr |-> "", place |-> "", conf |-> Num(0)]

\* newLRUCache(maxEntries)
newLRUCache(maxEntries) ==
    [maxEntries |-> maxEntries, entries |-> <<>>, heap |-> <<>>, head |-> NIL, tail |-> NIL]

\* addToFront that leaves the prev link of the old head nil
addToFront_NoBackLink(c, e) ==
    [c EXCEPT !.heap = [c.heap EXCEPT ![e].next = c.head, ![e].prev = NIL],
              !.head = e,
              !.tail = IF c.tail = NIL THEN e ELSE c.tail]

\* lruCache.addToFront(e)
addToFront(c, e) ==
    LET h1 == [c.heap EXCEPT ![e].next = c.head, ![e].prev = NIL]
        h2 == IF c.head # NIL THEN [h1 EXCEPT ![c.head].prev = e] ELSE h1
    IN  [c EXCEPT !.heap = h2,
                  !.head = e,
                  !.tail = IF c.tail = NIL THEN e ELSE c.tail]

\* lruCache.remove(e)
remove(c, e) ==
    LET c1 == IF c.heap[e].prev # NIL
                 THEN [c EXCEPT !.heap[c.heap[e].prev].next = c.heap[e].next]
                 ELSE [c EXCEPT !.head = c.heap[e].next]
    IN  IF c1.heap[e].next # NIL
           THEN [c1 EXCEPT !.heap[c1.heap[e].next].prev = c1.heap[e].prev]
           ELSE [c1 EXCEPT !.tail = c1.heap[e].prev]

\* lruCache.moveToFront(e)
moveToFront(c, e) ==
    IF e = c.head THEN c ELSE addToFront(remove(c, e), e)

\* evictTail that unlinks the head instead of the tail
evictTail_Head(c) ==
    IF c.tail = NIL
       THEN c
       ELSE remove([c EXCEPT !.entries = [k \in DOMAIN c.entries \ {c.heap[c.head].key}
                                             |-> c.entries[k]]],
                   c.head)

\* lruCache.evictTail()
evictTail(c) ==
    IF c.tail = NIL
       THEN c
       ELSE remove([c EXCEPT !.entries = [k \in DOMAIN c.entries \ {c.heap[c.tail].key}
                                             |-> c.entries[k]]],
                   c.tail)

\* get that does not promote the entry
get_NoPromote(c, key) ==
    IF key \notin DOMAIN c.entries
       THEN [cache |-> c, value |-> ZeroResult, ok |-> FALSE]
       ELSE [cache |-> c, value |-> c.heap[c.entries[key]].value, ok |-> TRUE]

\* lruCache.get(key): the cache afterwards, the value and the ok flag
get(c, key) ==
    IF key \notin DOMAIN c.entries
       THEN [cache |-> c, value |-> ZeroResult, ok |-> FALSE]
       ELSE [cache |-> moveToFront(c, c.entries[key]),
             value |-> c.heap[c.entries[key]].value,
             ok    |-> TRUE]

\* lruCache.put, the branch for an entry e found in the map
update(c, e, value) == moveToFront([c EXCEPT !.heap[e].value = value], e)

\* lruCache.put, the branch for a key not found in the map: a new entry is
\* allocated, stored in the map and linked at the front, and the tail is
\* evicted when the map has grown beyond maxEntries
insert(c, key, value) ==
    LET e  == Len(c.heap) + 1
        c1 == [c EXCEPT !.heap = Append(c.heap, [key |-> key, value |-> value,
                                                 prev |-> NIL, next |-> NIL]),
                        !.entries = [k \in DOMAIN c.entries \cup {key} |->
                                        IF k = key THEN e ELSE c.entries[k]]]
        c2 == addToFront(c1, e)
    IN  IF Cardinality(DOMAIN c2.entries) > c2.maxEntries THEN evictTail(c2) ELSE c2

\* put that promotes an existing entry and keeps its old value
put_KeepsOld(c, key, value) ==
    IF key \in DOMAIN c.entries
       THEN moveToFront(c, c.entries[key])
       ELSE insert(c, key, value)

\* lruCache.put(key, value): the entry found in the map is updated and
\* promoted, else a new entry is inserted
put(c, key, value) ==
    IF key \in DOMAIN c.entries
       THEN update(c, c.entries[key], value)
       ELSE insert(c, key, value)

\* the state of the geocoding cache after NewCachedGeocoder(inner, CacheCap)
CacheInit ==
    /\ cache = newLRUCache(CacheCap)
    /\ used = <<>>
    /\ opLog = <<>>
    /\ answered = <<>>
    /\ lastOutcome = <<>>
    /\ lastLookup = [n |-> 0, method |-> "none", key |-> "", prev |-> "none", hit |-> FALSE, innerCalled |-> FALSE,
                     inner |-> [err |-> "", result |-> ZeroResult], result |-> ZeroResult, err |-> ""]
    /\ mu = NIL
    /\ callers = <<>>

\* ------------------------------------------------------------------- Init

\* the state of a Pipeline returned by New, before Run is called
PipelineInit ==
    /\ pc = "start"
    /\ cancelled = FALSE
    /\ backoff = InitialBackoff
    /\ ready = FALSE
    /\ rawBatch = <<>>
    /\ idx = 1
    /\ outBatch = <<>>
    /\ successfulRaws = <<>>
    /\ metrics = [consumed |-> 0, produced |-> 0, transformErrors |-> 0, running |-> 0]
    /\ runResult = "running"
    /\ msgs = <<>>
    /\ nextOff = [p \in Partitions |-> 0]
    /\ poison = {}
    /\ warned = {}
    /\ loadCalls = <<>>
    /\ commits = <<>>
    /\ commitWarned = 0
    /\ lateExtract = 0
    /\ lateLoad = 0
    /\ lateTransform = {}
    /\ lateCommit = {}
    /\ streak = 0
    /\ loadFails = 0

Init ==
    /\ PipelineInit
    /\ CacheInit
    /\ XformIdle

\* ------------------------------------------------------------ environment

\* The caller cancels the context passed to Run.
Cancel ==
    /\ pc # "done"
    /\ ~cancelled
    /\ cancelled' = TRUE
    /\ UNCHANGED <<pc, backoff, ready, loopVars, metrics, runResult, srcVars, poison,
                   warned, loadCalls, commitVars, lateExtract, lateLoad,
                   lateTransform, streak>>
    /\ UNCHANGED <<loadFails, auxVars>>

\* -------------------------------------------------------------------- Run

\* Run returns v: the deferred PipelineRunning.Set(0) runs.
Return(v) ==
    /\ pc' = "done"
    /\ runResult' = v
    /\ metrics' = [metrics EXCEPT !.running = 0]

\* Run: entry, PipelineRunning.Set(1), backoff := 200ms.
RunStart ==
    /\ pc = "start"
    /\ pc' = "loopTop"
    /\ backoff' = InitialBackoff
    /\ metrics' = [metrics EXCEPT !.running = 1]
    /\ UNCHANGED <<cancelled, ready, loopVars, runResult, srcVars, poison, warned,
                   loadCalls, commitVars, lateExtract, lateLoad, lateTransform, streak>>
    /\ UNCHANGED <<loadFails, auxVars>>

\* The loop without the cancellation check at its top
LoopTop_NoCancelCheck ==
    /\ pc = "loopTop"
    /\ pc' = "extract"
    /\ UNCHANGED <<cancelled, backoff, ready, loopVars, metrics, runResult, srcVars,
                   poison, warned, loadCalls, commitVars, lateExtract, lateLoad,
                   lateTransform, streak>>
    /\ UNCHANGED <<loadFails, auxVars>>

\* Run: the select at the top of the for loop.
LoopTop ==
    /\ pc = "loopTop"
    /\ IF cancelled
          THEN Return("nil")
          ELSE pc' = "extract" /\ UNCHANGED <<runResult, metrics>>
    /\ UNCHANGED <<cancelled, backoff, ready, loopVars, srcVars, poison, warned,
                   loadCalls, commitVars, lateExtract, lateLoad, lateTransform, streak>>
    /\ UNCHANGED <<loadFails, auxVars>>

\* An extract error on a cancelled context propagated to the caller of Run
ExtractError_ReturnsErr ==
    /\ pc = "extract"
    /\ streak < MaxStreak
    /\ lateExtract' = lateExtract + (IF cancelled THEN 1 ELSE 0)
    /\ IF cancelled
          THEN Return("error")
          ELSE pc' = "backoff" /\ UNCHANGED <<runResult, metrics>>
    /\ UNCHANGED <<cancelled, backoff, ready, loopVars, srcVars, poison, warned,
                   loadCalls, commitVars, lateLoad, lateTransform, streak>>
    /\ loadFails' = 0
    /\ UNCHANGED auxVars

\* processBatch: ExtractBatch returns an error.
ExtractError ==
    /\ pc = "extract"
    /\ streak < MaxStreak
    /\ lateExtract' = lateExtract + (IF cancelled THEN 1 ELSE 0)
    /\ IF cancelled
          THEN Return("nil")
          ELSE pc' = "backoff" /\ UNCHANGED <<runResult, metrics>>
    /\ UNCHANGED <<cancelled, backoff, ready, loopVars, srcVars, poison, warned,
                   loadCalls, commitVars, lateLoad, lateTransform, streak>>
    /\ loadFails' = 0
    /\ UNCHANGED auxVars

\* processBatch: ExtractBatch returns an empty batch.
ExtractEmpty ==
    /\ pc = "extract"
    /\ lateExtract' = lateExtract + (IF cancelled THEN 1 ELSE 0)
    /\ IF cancelled
          THEN Return("nil")
          ELSE pc' = "loopTop" /\ UNCHANGED <<runResult, metrics>>
    /\ UNCHANGED <<cancelled, backoff, ready, loopVars, srcVars, poison, warned,
                   loadCalls, commitVars, lateLoad, lateTransform, streak>>
    /\ loadFails' = 0
    /\ UNCHANGED auxVars

\* A non-empty batch extracted with the backoff left where the sleeps put it
ExtractBatch_KeepsBackoff ==
    /\ pc = "extract"
    /\ Len(msgs) < MaxMsgs
    /\ \E n \in 1 .. Min(BatchSize, MaxMsgs - Len(msgs)) :
       \E parts \in [1 .. n -> Partitions], caps \in [1 .. n -> BOOLEAN] :
          /\ msgs' = msgs \o NewBatch(n, parts, caps)
          /\ nextOff' = [p \in Partitions |->
                            nextOff[p] + Cardinality({i \in 1 .. n : parts[i] = p})]
          /\ rawBatch' = [i \in 1 .. n |-> Len(msgs) + i]
          /\ metrics' = [metrics EXCEPT !.consumed = @ + n]
    /\ outBatch' = <<>>
    /\ successfulRaws' = <<>>
    /\ idx' = 1
    /\ pc' = "transform"
    /\ lateExtract' = lateExtract + (IF cancelled THEN 1 ELSE 0)
    /\ UNCHANGED <<cancelled, backoff, ready, runResult, poison, warned, loadCalls,
                   commitVars, lateLoad, lateTransform, streak>>
    /\ UNCHANGED <<loadFails, auxVars>>

\* processBatch: ExtractBatch returns a non-empty batch; the counters are
\* updated, the backoff is reset and transformAndLoad is entered.
ExtractBatch ==
    /\ pc = "extract"
    /\ Len(msgs) < MaxMsgs
    /\ \E n \in 1 .. Min(BatchSize, MaxMsgs - Len(msgs)) :
       \E parts \in [1 .. n -> Partitions], caps \in [1 .. n -> BOOLEAN] :
          /\ msgs' = msgs \o NewBatch(n, parts, caps)
          /\ nextOff' = [p \in Partitions |->
                            nextOff[p] + Cardinality({i \in 1 .. n : parts[i] = p})]
          /\ rawBatch' = [i \in 1 .. n |-> Len(msgs) + i]
          /\ metrics' = [metrics EXCEPT !.consumed = @ + n]
    /\ backoff' = InitialBackoff
    /\ streak' = 0
    /\ outBatch' = <<>>
    /\ successfulRaws' = <<>>
    /\ idx' = 1
    /\ pc' = "transform"
    /\ lateExtract' = lateExtract + (IF cancelled THEN 1 ELSE 0)
    /\ UNCHANGED <<cancelled, ready, runResult, poison, warned, loadCalls,
                   commitVars, lateLoad, lateTransform>>
    /\ UNCHANGED <<loadFails, auxVars>>

\* commitOffset(ctx, raw): nothing when raw.Commit is nil; otherwise Commit is
\* invoked and a failure is only logged.
commitOffset(id, fails) ==
    IF ~msgs[id].cap
       THEN UNCHANGED commitVars
       ELSE /\ commits' = Append(commits, id)
            /\ commitWarned' = commitWarned + (IF fails THEN 1 ELSE 0)
            /\ lateCommit' = IF cancelled THEN lateCommit \cup {id} ELSE lateCommit

\* Transform succeeds and the offset is committed at once, before the load
TransformOk_CommitsEarly ==
    /\ pc = "transform"
    /\ idx <= Len(rawBatch)
    /\ outBatch' = Append(outBatch, rawBatch[idx])
    /\ successfulRaws' = <<>>
    /\ \E fails \in BOOLEAN : commitOffset(rawBatch[idx], fails)
    /\ idx' = idx + 1
    /\ lateTransform' = IF cancelled THEN lateTransform \cup {rawBatch[idx]}
                                     ELSE lateTransform
    /\ UNCHANGED <<pc, cancelled, backoff, ready, rawBatch, metrics, runResult,
                   srcVars, poison, warned, loadCalls, lateExtract, lateLoad, streak>>
    /\ UNCHANGED <<loadFails, auxVars>>

\* Transform succeeds and the results are put in front of the batches
TransformOk_Prepend ==
    /\ pc = "transform"
    /\ idx <= Len(rawBatch)
    /\ outBatch' = <<rawBatch[idx]>> \o outBatch
    /\ successfulRaws' = <<rawBatch[idx]>> \o successfulRaws
    /\ idx' = idx + 1
    /\ lateTransform' = IF cancelled THEN lateTransform \cup {rawBatch[idx]}
                                     ELSE lateTransform
    /\ UNCHANGED <<pc, cancelled, backoff, ready, rawBatch, metrics, runResult,
                   srcVars, poison, warned, loadCalls, commitVars, lateExtract,
                   lateLoad, streak>>
    /\ UNCHANGED <<loadFails, auxVars>>

\* transformAndLoad, first loop: Transform succeeds for rawBatch[idx].
TransformOk ==
    /\ pc = "transform"
    /\ idx <= Len(rawBatch)
    /\ outBatch' = Append(outBatch, rawBatch[idx])
    /\ successfulRaws' = Append(successfulRaws, rawBatch[idx])
    /\ idx' = idx + 1
    /\ lateTransform' = IF cancelled THEN lateTransform \cup {rawBatch[idx]}
                                     ELSE lateTransform
    /\ UNCHANGED <<pc, cancelled, backoff, ready, rawBatch, metrics, runResult,
                   srcVars, poison, warned, loadCalls, commitVars, lateExtract,
                   lateLoad, streak>>
    /\ UNCHANGED <<loadFails, auxVars>>

\* Transform fails and the `continue` is missing: the message is committed and
\* then appended to the batches as well
TransformErr_NoContinue ==
    /\ pc = "transform"
    /\ idx <= Len(rawBatch)
    /\ poison' = poison \cup {rawBatch[idx]}
    /\ warned' = warned \cup {rawBatch[idx]}
    /\ metrics' = [metrics EXCEPT !.transformErrors = @ + 1]
    /\ \E fails \in BOOLEAN : commitOffset(rawBatch[idx], fails)
    /\ outBatch' = Append(outBatch, rawBatch[idx])
    /\ successfulRaws' = Append(successfulRaws, rawBatch[idx])
    /\ idx' = idx + 1
    /\ lateTransform' = IF cancelled THEN lateTransform \cup {rawBatch[idx]}
                                     ELSE lateTransform
    /\ UNCHANGED <<pc, cancelled, backoff, ready, rawBatch, runResult, srcVars,
                   loadCalls, lateExtract, lateLoad, streak>>
    /\ UNCHANGED <<loadFails, auxVars>>

\* Transform fails and the loop is left (`break`) instead of continued
TransformErr_Break ==
    /\ pc = "transform"
    /\ idx <= Len(rawBatch)
    /\ poison' = poison \cup {rawBatch[idx]}
    /\ warned' = warned \cup {rawBatch[idx]}
    /\ metrics' = [metrics EXCEPT !.transformErrors = @ + 1]
    /\ \E fails \in BOOLEAN : commitOffset(rawBatch[idx], fails)
    /\ idx' = Len(rawBatch) + 1
    /\ lateTransform' = IF cancelled THEN lateTransform \cup {rawBatch[idx]}
                                     ELSE lateTransform
    /\ UNCHANGED <<pc, cancelled, backoff, ready, rawBatch, outBatch, successfulRaws,
                   runResult, srcVars, loadCalls, lateExtract, lateLoad, streak>>
    /\ UNCHANGED <<loadFails, auxVars>>

\* transformAndLoad, first loop: Transform fails for rawBatch[idx]: warn,
\* TransformErrors.Inc(), commitOffset, continue.
TransformErr ==
    /\ pc = "transform"
    /\ idx <= Len(rawBatch)
    /\ poison' = poison \cup {rawBatch[idx]}
    /\ warned' = warned \cup {rawBatch[idx]}
    /\ metrics' = [metrics EXCEPT !.transformErrors = @ + 1]
    /\ \E fails \in BOOLEAN : commitOffset(rawBatch[idx], fails)
    /\ idx' = idx + 1
    /\ lateTransform' = IF cancelled THEN lateTransform \cup {rawBatch[idx]}
                                     ELSE lateTransform
    /\ UNCHANGED <<pc, cancelled, backoff, ready, rawBatch, outBatch, successfulRaws,
                   runResult, srcVars, loadCalls, lateExtract, lateLoad, streak>>
    /\ UNCHANGED <<loadFails, auxVars>>

\* A batch of poison pills only counted as processed: p.ready is stored
TransformedNone_MarksReady ==
    /\ pc = "transform"
    /\ idx > Len(rawBatch)
    /\ Len(outBatch) = 0
    /\ ready' = TRUE
    /\ pc' = "loopTop"
    /\ UNCHANGED <<cancelled, backoff, loopVars, metrics, runResult, srcVars,
                   poison, warned, loadCalls, commitVars, lateExtract, lateLoad,
                   lateTransform, streak>>
    /\ loadFails' = 0
    /\ UNCHANGED auxVars

\* The empty output batch handed to LoadBatch all the same
TransformedNone_LoadsEmpty ==
    /\ pc = "transform"
    /\ idx > Len(rawBatch)
    /\ Len(outBatch) = 0
    /\ loadCalls' = Append(loadCalls, [batch |-> outBatch, ok |-> TRUE])
    /\ pc' = "loopTop"
    /\ UNCHANGED <<cancelled, backoff, ready, loopVars, metrics, runResult, srcVars,
                   poison, warned, commitVars, lateExtract, lateLoad,
                   lateTransform, streak>>
    /\ loadFails' = 0
    /\ UNCHANGED auxVars

\* transformAndLoad: the first loop is over and outBatch is empty: return
\* (0, true); processBatch returns true without touching p.ready.
TransformedNone ==
    /\ pc = "transform"
    /\ idx > Len(rawBatch)
    /\ Len(outBatch) = 0
    /\ pc' = "loopTop"
    /\ UNCHANGED <<cancelled, backoff, ready, loopVars, metrics, runResult, srcVars,
                   poison, warned, loadCalls, commitVars, lateExtract, lateLoad,
                   lateTransform, streak>>
    /\ loadFails' = 0
    /\ UNCHANGED auxVars

\* A failed LoadBatch followed by the next iteration at once, without
\* backoffOrStop
LoadFail_NoBackoff ==
    /\ pc = "transform"
    /\ idx > Len(rawBatch)
    /\ Len(outBatch) > 0
    /\ streak < MaxStreak
    /\ loadCalls' = Append(loadCalls, [batch |-> outBatch, ok |-> FALSE])
    /\ lateLoad' = lateLoad + (IF cancelled THEN 1 ELSE 0)
    /\ pc' = "loopTop"
    /\ UNCHANGED <<cancelled, backoff, ready, loopVars, metrics, runResult, srcVars,
                   poison, warned, commitVars, lateExtract, lateTransform, streak>>
    /\ loadFails' = loadFails + 1
    /\ UNCHANGED auxVars

\* A failed LoadBatch counted in messages_produced_total all the same
LoadFail_CountsProduced ==
    /\ pc = "transform"
    /\ idx > Len(rawBatch)
    /\ Len(outBatch) > 0
    /\ streak < MaxStreak
    /\ loadCalls' = Append(loadCalls, [batch |-> outBatch, ok |-> FALSE])
    /\ lateLoad' = lateLoad + (IF cancelled THEN 1 ELSE 0)
    /\ metrics' = [metrics EXCEPT !.produced = @ + Len(outBatch)]
    /\ pc' = "backoff"
    /\ UNCHANGED <<cancelled, backoff, ready, loopVars, runResult, srcVars,
                   poison, warned, commitVars, lateExtract, lateTransform, streak>>
    /\ loadFails' = loadFails + 1
    /\ UNCHANGED auxVars

\* transformAndLoad: LoadBatch(outBatch) returns an error: log, backoffOrStop.
LoadFail ==
    /\ pc = "transform"
    /\ idx > Len(rawBatch)
    /\ Len(outBatch) > 0
    /\ streak < MaxStreak
    /\ loadCalls' = Append(loadCalls, [batch |-> outBatch, ok |-> FALSE])
    /\ lateLoad' = lateLoad + (IF cancelled THEN 1 ELSE 0)
    /\ pc' = "backoff"
    /\ UNCHANGED <<cancelled, backoff, ready, loopVars, metrics, runResult, srcVars,
                   poison, warned, commitVars, lateExtract, lateTransform, streak>>
    /\ loadFails' = loadFails + 1
    /\ UNCHANGED auxVars

\* transformAndLoad: LoadBatch(outBatch) succeeds: MessagesProduced.Add, then
\* the commit loop over successfulRaws starts.
LoadOk ==
    /\ pc = "transform"
    /\ idx > Len(rawBatch)
    /\ Len(outBatch) > 0
    /\ loadCalls' = Append(loadCalls, [batch |-> outBatch, ok |-> TRUE])
    /\ lateLoad' = lateLoad + (IF cancelled THEN 1 ELSE 0)
    /\ metrics' = [metrics EXCEPT !.produced = @ + Len(outBatch)]
    /\ idx' = 1
    /\ pc' = "commit"
    /\ UNCHANGED <<cancelled, backoff, ready, rawBatch, outBatch, successfulRaws,
                   runResult, srcVars, poison, warned, commitVars, lateExtract,
                   lateTransform, streak>>
    /\ loadFails' = 0
    /\ UNCHANGED auxVars

\* The commit loop with a failed Commit treated as a stage error
CommitLoaded_FailBacksOff ==
    /\ pc = "commit"
    /\ idx <= Len(successfulRaws)
    /\ \E fails \in BOOLEAN :
          /\ commitOffset(successfulRaws[idx], fails)
          /\ pc' = IF fails /\ msgs[successfulRaws[idx]].cap THEN "backoff" ELSE pc
    /\ idx' = idx + 1
    /\ UNCHANGED <<cancelled, backoff, ready, rawBatch, outBatch, successfulRaws,
                   metrics, runResult, srcVars, poison, warned, loadCalls,
                   lateExtract, lateLoad, lateTransform, streak>>
    /\ UNCHANGED <<loadFails, auxVars>>

\* transformAndLoad, second loop: commitOffset(successfulRaws[idx]).
CommitLoaded ==
    /\ pc = "commit"
    /\ idx <= Len(successfulRaws)
    /\ \E fails \in BOOLEAN : commitOffset(successfulRaws[idx], fails)
    /\ idx' = idx + 1
    /\ UNCHANGED <<pc, cancelled, backoff, ready, rawBatch, outBatch, successfulRaws,
                   metrics, runResult, srcVars, poison, warned, loadCalls,
                   lateExtract, lateLoad, lateTransform, streak>>
    /\ UNCHANGED <<loadFails, auxVars>>

\* The end of processBatch followed by ExtractBatch at once, without the
\* select at the top of the loop
MarkReady_SkipsLoopTop ==
    /\ pc = "commit"
    /\ idx > Len(successfulRaws)
    /\ ready' = (IF Len(outBatch) > 0 THEN TRUE ELSE ready)
    /\ pc' = "extract"
    /\ UNCHANGED <<cancelled, backoff, loopVars, metrics, runResult, srcVars, poison,
                   warned, loadCalls, commitVars, lateExtract, lateLoad,
                   lateTransform, streak>>
    /\ UNCHANGED <<loadFails, auxVars>>

\* transformAndLoad returns (len(outBatch), true); processBatch: loaded > 0,
\* so p.ready.Store(true), return true.
MarkReady ==
    /\ pc = "commit"
    /\ idx > Len(successfulRaws)
    /\ ready' = (IF Len(outBatch) > 0 THEN TRUE ELSE ready)
    /\ pc' = "loopTop"
    /\ UNCHANGED <<cancelled, backoff, loopVars, metrics, runResult, srcVars, poison,
                   warned, loadCalls, commitVars, lateExtract, lateLoad,
                   lateTransform, streak>>
    /\ UNCHANGED <<loadFails, auxVars>>

\* backoffOrStop: the ctx.Err() check before the sleep.
BackoffCheck ==
    /\ pc = "backoff"
    /\ IF cancelled
          THEN Return("nil")
          ELSE pc' = "sleep" /\ UNCHANGED <<runResult, metrics>>
    /\ UNCHANGED <<cancelled, backoff, ready, loopVars, srcVars, poison, warned,
                   loadCalls, commitVars, lateExtract, lateLoad, lateTransform, streak>>
    /\ UNCHANGED <<loadFails, auxVars>>

\* sleepWithContext: the timer fires; backoffOrStop advances the backoff and
\* returns true.  When the context is cancelled too, select may take either
\* ready case.
SleepDone ==
    /\ pc = "sleep"
    /\ backoff' = nextBackoff(backoff, MaxBackoff)
    /\ streak' = streak + 1
    /\ pc' = "loopTop"
    /\ UNCHANGED <<cancelled, ready, loopVars, metrics, runResult, srcVars, poison,
                   warned, loadCalls, commitVars, lateExtract, lateLoad,
                   lateTransform>>
    /\ UNCHANGED <<loadFails, auxVars>>

\* The sleep ended by the cancellation with the backoff advanced all the same
SleepCancelled_Advances ==
    /\ pc = "sleep"
    /\ cancelled
    /\ Return("nil")
    /\ backoff' = nextBackoff(backoff, MaxBackoff)
    /\ UNCHANGED <<cancelled, ready, loopVars, srcVars, poison, warned,
                   loadCalls, commitVars, lateExtract, lateLoad, lateTransform, streak>>
    /\ UNCHANGED <<loadFails, auxVars>>

\* sleepWithContext: ctx.Done() is taken; backoffOrStop returns false and the
\* backoff is not advanced.
SleepCancelled ==
    /\ pc = "sleep"
    /\ cancelled
    /\ Return("nil")
    /\ UNCHANGED <<cancelled, backoff, ready, loopVars, srcVars, poison, warned,
                   loadCalls, commitVars, lateExtract, lateLoad, lateTransform, streak>>
    /\ UNCHANGED <<loadFails, auxVars>>



Next ==
    \/ Cancel
    \/ RunStart
    \/ LoopTop
    \/ ExtractError
    \/ ExtractEmpty
    \/ ExtractBatch
    \/ TransformOk
    \/ TransformErr
    \/ TransformedNone
    \/ LoadFail
    \/ LoadOk
    \/ CommitLoaded
    \/ MarkReady
    \/ BackoffCheck
    \/ SleepDone
    \/ SleepCancelled

Spec == Init /\ [][Next]_vars

\* --------------------------------------------------------------- typing

TypeOK ==
    /\ pc \in {"start", "loopTop", "extract", "transform", "commit", "backoff",
               "sleep", "done"}
    /\ cancelled \in BOOLEAN
    /\ ready \in BOOLEAN
    /\ runResult \in {"running", "nil", "error"}
    /\ backoff \in Nat
    /\ Range(rawBatch) \subseteq Ids
    /\ poison \subseteq Ids
    /\ Range(commits) \subseteq Ids

\* ------------------------------------------------------- derived history

\* ids passed to some LoadBatch call / to a LoadBatch call that succeeded
PassedToLoad == UNION {Range(loadCalls[k].batch) : k \in 1 .. Len(loadCalls)}
LoadedOk == UNION {Range(loadCalls[k].batch) : k \in {j \in 1 .. Len(loadCalls) : loadCalls[j].ok}}
LoadFailed == UNION {Range(loadCalls[k].batch) : k \in {j \in 1 .. Len(loadCalls) : ~loadCalls[j].ok}}

\* number of times the Commit of message id was invoked
CommitCount(id) == Cardinality({i \in 1 .. Len(commits) : commits[i] = id})

\* the messages extracted in batch number b
BatchOf(b) == {id \in Ids : msgs[id].batch = b}

\* message id belongs to the batch transformAndLoad is working on
InFlight(id) == pc \in {"transform", "commit"} /\ id \in Range(rawBatch)

\* a Commit invoked so far is at the offset of message id or beyond it, on the
\* same partition: the broker's committed offset has moved past the message
Covered(id) ==
    \E c \in Range(commits) : msgs[c].part = msgs[id].part /\ msgs[c].off >= msgs[id].off

\* ----------------------------------------------------------------- claims

\* C1: at-least-once delivery: every extracted message is either loaded by a
\* LoadBatch call that succeeds and committed, or is a poison pill (logged,
\* counted, committed, never loaded); no message is dropped, also when a
\* LoadBatch fails.  Stated for the messages whose fate can no longer change:
\* once the loop has left a message's batch and the committed offset of the
\* partition covers the message, the message was loaded successfully or was
\* skipped as poison.
C1_AtLeastOnce ==
    \A id \in Ids :
        (msgs[id].cap /\ ~InFlight(id) /\ Covered(id)) =>
            \/ id \in LoadedOk /\ id \notin poison
            \/ id \in poison /\ id \in warned /\ id \notin PassedToLoad

\* C2: the Commit of a successfully transformed message is invoked only after
\* the LoadBatch call containing it has returned success, and after a failed
\* LoadBatch no message of that batch is committed.
C2_CommitOnlyAfterLoad ==
    /\ \A i \in 1 .. Len(commits) : commits[i] \notin poison => commits[i] \in LoadedOk
    /\ LoadFailed \cap Range(commits) = {}
    /\ \A id \in Range(successfulRaws) : pc = "transform" => CommitCount(id) = 0

C2_Witness ==
    /\ LoadFailed # {}
    /\ \E id \in Range(commits) : id \in LoadedOk

\* C3 (as claimed): every extracted message carrying a commit capability has
\* had it invoked exactly once when the loop has finished with its batch.
C3_ExactlyOnce ==
    \A id \in Ids : (msgs[id].cap /\ ~InFlight(id)) => CommitCount(id) = 1

\* C3 (amended): a commit capability is invoked at most once, only after the
\* message's fate is decided, exactly once when the fate is decided (at once
\* for a poison pill, by the end of the iteration for a loaded message) and
\* not at all for a message whose LoadBatch failed; a batch whose load
\* succeeded gets one commit per message that carries a capability.
C3_OncePerDecidedFate ==
    /\ \A id \in Ids : CommitCount(id) <= 1
    /\ \A id \in Range(commits) : id \in poison \/ id \in LoadedOk
    /\ \A id \in poison : msgs[id].cap => CommitCount(id) = 1
    /\ \A id \in LoadedOk : (msgs[id].cap /\ ~InFlight(id)) => CommitCount(id) = 1
    /\ \A id \in LoadFailed : CommitCount(id) = 0
    /\ \A k \in 1 .. Len(loadCalls) :
          LET b == msgs[loadCalls[k].batch[1]].batch
          IN  (loadCalls[k].ok /\ (\A id \in BatchOf(b) : ~InFlight(id))) =>
                 Cardinality({i \in 1 .. Len(commits) : commits[i] \in BatchOf(b)})
                    = Cardinality({id \in BatchOf(b) : msgs[id].cap})

C3_Witness ==
    /\ pc = "loopTop"
    /\ \E b \in 1 .. MaxMsgs :
          /\ Cardinality(BatchOf(b)) = 2
          /\ \A id \in BatchOf(b) : msgs[id].cap /\ CommitCount(id) = 1
          /\ BatchOf(b) \cap LoadedOk # {}

\* C4: a message whose Transform fails is never passed to LoadBatch, raises
\* transform_errors_total by exactly one and is committed in the same step;
\* the other messages of its batch are still passed to LoadBatch in that
\* iteration, and only they are.
C4_PoisonIsolation ==
    /\ poison \cap PassedToLoad = {}
    /\ metrics.transformErrors = Cardinality(poison)
    /\ warned = poison
    /\ \A id \in poison : msgs[id].cap => CommitCount(id) = 1
    /\ \A id \in Ids : (id \notin poison /\ ~(pc = "transform" /\ InFlight(id)))
                          => id \in PassedToLoad
    /\ \A k \in 1 .. Len(loadCalls) :
          Range(loadCalls[k].batch)
             = BatchOf(msgs[loadCalls[k].batch[1]].batch) \ poison

C4_Witness ==
    \E k \in 1 .. Len(loadCalls) :
        /\ loadCalls[k].ok
        /\ BatchOf(msgs[loadCalls[k].batch[1]].batch) \cap poison # {}

\* C5: whenever Commit is invoked for a message at offset o of a partition,
\* every message of that partition with a lower offset extracted in the same
\* batch has already been loaded successfully or skipped as poison.
C5_CommitsOrderedAfterLoads ==
    \A c \in Range(commits) : \A id \in BatchOf(msgs[c].batch) :
        (msgs[id].part = msgs[c].part /\ msgs[id].off < msgs[c].off)
            => (id \in LoadedOk \/ id \in poison)

C7_RunReturnsNil ==
    /\ runResult # "error"
    /\ pc = "done" <=> runResult = "nil"
    /\ pc = "done" => cancelled
    /\ metrics.running = (IF pc \in {"start", "done"} THEN 0 ELSE 1)

C7_Witness ==
    /\ pc = "done"
    /\ runResult = "nil"
    /\ poison # {}
    /\ commitWarned > 0
    /\ LoadFailed # {}
    /\ streak > 0

\* C8 (as claimed): once the context is cancelled no ExtractBatch, Transform,
\* LoadBatch or Commit call is started.
C8_NoCallAfterCancel ==
    /\ lateExtract = 0
    /\ lateLoad = 0
    /\ lateTransform = {}
    /\ lateCommit = {}

\* C8 (amended): once the context is cancelled the loop starts no new
\* iteration: at most one ExtractBatch call (the one whose cancellation check
\* had already passed) and at most one LoadBatch call are started, and
\* Transform and Commit are started only for messages of the one batch that
\* was in flight or returned by that ExtractBatch call.
C8_CancelEndsAtNextCheck ==
    /\ lateExtract <= 1
    /\ lateLoad <= 1
    /\ \A id \in lateTransform \cup lateCommit : msgs[id].batch = msgs[Len(msgs)].batch
    /\ ~cancelled => (lateExtract = 0 /\ lateLoad = 0 /\ lateTransform = {} /\ lateCommit = {})

C8_Witness ==
    /\ pc = "done"
    /\ lateExtract = 1
    /\ lateLoad = 1
    /\ lateTransform # {}
    /\ lateCommit # {}

\* C9: the output events passed to LoadBatch are in the relative order of the
\* successfully transformed messages of the extracted batch (message ids are
\* positions in extraction order), and after a successful load the commits
\* are issued in that order.
C9_OrderPreserved ==
    /\ \A k \in 1 .. Len(loadCalls) :
          \A i, j \in 1 .. Len(loadCalls[k].batch) :
              i < j => loadCalls[k].batch[i] < loadCalls[k].batch[j]
    /\ \A i, j \in 1 .. Len(outBatch) : i < j => outBatch[i] < outBatch[j]
    /\ successfulRaws = outBatch
    /\ \A i, j \in 1 .. Len(commits) :
          (i < j /\ commits[i] \in LoadedOk /\ commits[j] \in LoadedOk)
              => commits[i] < commits[j]

C9_Witness ==
    \E k \in 1 .. Len(loadCalls) :
        /\ loadCalls[k].ok
        /\ Len(loadCalls[k].batch) = 2
        /\ \A id \in Range(loadCalls[k].batch) : CommitCount(id) = 1

\* C10: the backoff delay starts at 200 ms, doubles after each completed
\* backoff sleep and is capped at 5 s: after k completed sleeps without a
\* reset it is the (k+1)-th of 200, 400, 800, 1600, 3200, 5000, 5000, ...
\* and it is within [200 ms, 5 s] in every reachable state.
BackoffTable == <<200, 400, 800, 1600, 3200, 5000>>

C11_LoadBackoffGrows ==
    (pc = "sleep" /\ loadFails > 0) =>
        backoff = (IF loadFails <= Len(BackoffTable) THEN BackoffTable[loadFails] ELSE 5000)


\* ======================================================== lruCache, alone

\* every variable of the module
allVars == <<vars, auxVars>>

\* keys and values the callers of the lruCache use
Keys == {"a", "b", "c", "d"}
ResultA == [lat |-> Num(352200000), lon |-> Num(-974400000), addr |-> "Norman, Oklahoma",
            place |-> "Norman", conf |-> Num(95)]
ResultB == [lat |-> Num(327800000), lon |-> Num(-968000000), addr |-> "Dallas, Texas",
            place |-> "Dallas", conf |-> Num(98)]

\* the recency list with key k moved (or added) to its front
Touch(u, k) == <<k>> \o SelectSeq(u, LAMBDA x : x # k)

\* keys a get would find
Retrievable(c) == {k \in DOMAIN c.entries : get(c, k).ok}

\* a caller invokes c.get(k)
LruGet(k) ==
    /\ Len(opLog) < MaxOps
    /\ LET r == get(cache, k)
       IN  /\ cache' = r.cache
           /\ used' = IF r.ok THEN Touch(used, k) ELSE used
           /\ opLog' = Append(opLog, [op |-> "get", key |-> k, value |-> r.value, ok |-> r.ok])
    /\ UNCHANGED <<vars, concVars, geoVars, xformVars>>

\* a caller invokes c.put(k, v)
LruPut(k, v) ==
    /\ Len(opLog) < MaxOps
    /\ cache' = put(cache, k, v)
    /\ used' = Touch(used, k)
    /\ opLog' = Append(opLog, [op |-> "put", key |-> k, value |-> v, ok |-> TRUE])
    /\ UNCHANGED <<vars, concVars, geoVars, xformVars>>

NextLRU ==
    \/ \E k \in Keys : LruGet(k)
    \/ \E k \in Keys, v \in {ResultA, ResultB} : LruPut(k, v)

SpecLRU == Init /\ [][NextLRU]_allVars

\* the first n keys of the recency list
MostRecent(n) == Range(SubSeq(used, 1, Min(n, Len(used))))

\* the last op of the log was a put of a key that was absent, on a full cache
PutNewOnFull ==
    /\ opLog' = Append(opLog, [op |-> "put", key |-> opLog'[Len(opLog')].key,
                               value |-> opLog'[Len(opLog')].value, ok |-> TRUE])
    /\ opLog'[Len(opLog')].key \notin Retrievable(cache)
    /\ Cardinality(Retrievable(cache)) = cache.maxEntries

\* C12: in an lruCache of capacity N the retrievable keys are exactly the
\* (at most N) most recently put or got keys, so after N+k puts of distinct
\* keys exactly N keys are retrievable; and a put of a new key into a full
\* cache removes exactly one key, the least recently used one, and adds the
\* new key.
C12_CapacityAndEviction ==
    /\ [](/\ Retrievable(cache) = MostRecent(cache.maxEntries)
          /\ Cardinality(Retrievable(cache)) = Min(cache.maxEntries, Len(used)))
    /\ [][PutNewOnFull =>
            Retrievable(cache') =
                (Retrievable(cache) \ {used[cache.maxEntries]}) \cup {opLog'[Len(opLog')].key}]_allVars

\* more distinct keys were put than the cache holds, after a get in between
C12_Witness ==
    /\ Len(used) > cache.maxEntries
    /\ Cardinality(Retrievable(cache)) = cache.maxEntries
    /\ \E i \in 1 .. Len(opLog) : opLog[i].op = "get" /\ opLog[i].ok
    /\ opLog[Len(opLog)].op = "put"
    /\ used[Len(used)] \notin Retrievable(cache)

\* the log is: N puts of distinct keys, a get of the first of them, a put of
\* a new key (N the capacity)
PromoteScenario ==
    LET n == cache.maxEntries
    IN  /\ Len(opLog) = n + 2
        /\ \A i \in 1 .. n : opLog[i].op = "put"
        /\ \A i, j \in 1 .. n : i # j => opLog[i].key # opLog[j].key
        /\ opLog[n + 1].op = "get" /\ opLog[n + 1].key = opLog[1].key
        /\ opLog[n + 2].op = "put"
        /\ \A i \in 1 .. n : opLog[n + 2].key # opLog[i].key

\* C13: a successful get makes the entry the most recently used one: with
\* the cache full, a get of the key that is next to be evicted protects it,
\* and the next insert evicts the next-oldest key instead (capacity 2:
\* put(a), put(b), get(a), put(c) leaves a and c retrievable and b absent).
C13_GetPromotes ==
    /\ [](PromoteScenario =>
            /\ opLog[cache.maxEntries + 1].ok
            /\ opLog[1].key \in Retrievable(cache)
            /\ opLog[Len(opLog)].key \in Retrievable(cache)
            /\ opLog[2].key \notin Retrievable(cache))
    /\ []((opLog # <<>> /\ opLog[Len(opLog)].op = "get" /\ opLog[Len(opLog)].ok) =>
            /\ cache.head # NIL
            /\ cache.heap[cache.head].key = opLog[Len(opLog)].key)

C13_Witness ==
    /\ PromoteScenario
    /\ opLog[1].key \in Retrievable(cache)


\* ========================================================= CachedGeocoder

\* strconv of one decimal digit, and of a natural number
DigitStr(d) == SubSeq(Digits, d + 1, d + 1)

RECURSIVE NatStr(_)
NatStr(n) == IF n < 10 THEN DigitStr(n) ELSE NatStr(n \div 10) \o DigitStr(n % 10)

\* the decimal digits of n, left-padded with zeros to width w
RECURSIVE PadStr(_, _)
PadStr(n, w) == IF w = 0 THEN "" ELSE PadStr(n \div 10, w - 1) \o DigitStr(n % 10)

\* fmt's %.<dec>f of a float counted in units of 10^-unit (dec < unit): the
\* value is rounded to dec decimals (the inputs have no ties) and a negative
\* value keeps its sign even when it rounds to zero
FormatF(x, unit, dec) ==
    IF x.k = "nan" THEN "NaN"
    ELSE IF x.k = "inf" THEN (IF x.v < 0 THEN "-Inf" ELSE "+Inf")
    ELSE LET a == IF x.v < 0 THEN -x.v ELSE x.v
             r == (a + 5 * Pow10(unit - dec - 1)) \div Pow10(unit - dec)
         IN  (IF x.v < 0 THEN "-" ELSE "") \o NatStr(r \div Pow10(dec)) \o "."
                 \o PadStr(r % Pow10(dec), dec)

\* %.6f of a coordinate
FormatF6(x) == FormatF(x, 7, 6)

\* fmt.Sprintf("fwd:%s|%s", name, state)
FwdKey(name, state) == "fwd:" \o name \o "|" \o state

\* fmt.Sprintf("rev:%.6f,%.6f", lat, lon)
RevKey(lat, lon) == "rev:" \o FormatF6(lat) \o "," \o FormatF6(lon)

\* the arguments the callers pass
FwdInputs == {<<"AUSTIN", "TX">>, <<"A|B", "C">>, <<"A", "B|C">>}
RevInputs == {<<Num(302672001), Num(-977431000)>>, <<Num(302672004), Num(-977431000)>>,
              <<Num(302672006), Num(-977431000)>>, <<Num(-1), Num(0)>>}

\* what a call of the inner geocoder can return: (result, err)
InnerOutcomes ==
    {[err |-> "timeout", result |-> ResultA],
     [err |-> "",        result |-> ZeroResult],
     [err |-> "",        result |-> ResultA],
     [err |-> "",        result |-> ResultB]}

\* the function f with f[k] = v
Assign(f, k, v) == [x \in DOMAIN f \cup {k} |-> IF x = k THEN v ELSE f[x]]

\* how the latest lookup of the key ended, "none" when it was never looked up
Latest(key) == IF key \in DOMAIN lastOutcome THEN lastOutcome[key] ELSE "none"

\* the lookup caches every result returned without error
Lookup_StoresEmpty(method, key, out) ==
    /\ lastLookup.n < MaxLookups
    /\ LET g == get(cache, key)
       IN  IF g.ok
              THEN /\ cache' = g.cache
                   /\ used' = Touch(used, key)
                   /\ answered' = answered
                   /\ lastOutcome' = Assign(lastOutcome, key, "hit")
                   /\ lastLookup' = [n |-> lastLookup.n + 1, method |-> method, key |-> key,
                                     prev |-> Latest(key),
                                     hit |-> TRUE, innerCalled |-> FALSE,
                                     inner |-> [err |-> "", result |-> ZeroResult],
                                     result |-> g.value, err |-> ""]
              ELSE /\ cache' = IF out.err = "" THEN put(g.cache, key, out.result) ELSE g.cache
                   /\ used' = IF out.err = "" THEN Touch(used, key) ELSE used
                   /\ answered' = IF out.err = "" THEN Assign(answered, key, [result |-> out.result, method |-> method]) ELSE answered
                   /\ lastOutcome' = Assign(lastOutcome, key,
                                            IF out.err # "" THEN "err" ELSE "stored")
                   /\ lastLookup' = [n |-> lastLookup.n + 1, method |-> method, key |-> key,
                                     prev |-> Latest(key),
                                     hit |-> FALSE, innerCalled |-> TRUE, inner |-> out,
                                     result |-> out.result, err |-> out.err]
    /\ UNCHANGED <<vars, concVars, opLog, xformVars>>

\* the lookup looks at the address before it looks at the error
Lookup_StoresOnError(method, key, out) ==
    /\ lastLookup.n < MaxLookups
    /\ LET g == get(cache, key)
           store == out.result.addr # ""
       IN  IF g.ok
              THEN /\ cache' = g.cache
                   /\ used' = Touch(used, key)
                   /\ answered' = answered
                   /\ lastOutcome' = Assign(lastOutcome, key, "hit")
                   /\ lastLookup' = [n |-> lastLookup.n + 1, method |-> method, key |-> key,
                                     prev |-> Latest(key),
                                     hit |-> TRUE, innerCalled |-> FALSE,
                                     inner |-> [err |-> "", result |-> ZeroResult],
                                     result |-> g.value, err |-> ""]
              ELSE /\ cache' = IF store THEN put(g.cache, key, out.result) ELSE g.cache
                   /\ used' = IF store THEN Touch(used, key) ELSE used
                   /\ answered' = IF store THEN Assign(answered, key, [result |-> out.result, method |-> method]) ELSE answered
                   /\ lastOutcome' = Assign(lastOutcome, key,
                                            IF out.err # "" THEN "err"
                                            ELSE IF store THEN "stored" ELSE "empty")
                   /\ lastLookup' = [n |-> lastLookup.n + 1, method |-> method, key |-> key,
                                     prev |-> Latest(key),
                                     hit |-> FALSE, innerCalled |-> TRUE, inner |-> out,
                                     result |-> out.result, err |-> out.err]
    /\ UNCHANGED <<vars, concVars, opLog, xformVars>>

\* the lookup never consults the cache
Lookup_SkipsCache(method, key, out) ==
    /\ lastLookup.n < MaxLookups
    /\ LET store == out.err = "" /\ out.result.addr # ""
       IN  /\ cache' = IF store THEN put(cache, key, out.result) ELSE cache
           /\ used' = IF store THEN Touch(used, key) ELSE used
           /\ answered' = IF store THEN Assign(answered, key, [result |-> out.result, method |-> method]) ELSE answered
           /\ lastOutcome' = Assign(lastOutcome, key,
                                    IF out.err # "" THEN "err"
                                    ELSE IF store THEN "stored" ELSE "empty")
           /\ lastLookup' = [n |-> lastLookup.n + 1, method |-> method, key |-> key,
                                     prev |-> Latest(key),
                             hit |-> FALSE, innerCalled |-> TRUE, inner |-> out,
                             result |-> out.result, err |-> out.err]
    /\ UNCHANGED <<vars, concVars, opLog, xformVars>>

\* the body ForwardGeocode and ReverseGeocode share: look the key up, on a
\* miss call the inner geocoder (which answers out), return its error as it
\* is, store the result only when its FormattedAddress is not empty
Lookup(method, key, out) ==
    /\ lastLookup.n < MaxLookups
    /\ LET g == get(cache, key)
           store == out.err = "" /\ out.result.addr # ""
       IN  IF g.ok
              THEN /\ cache' = g.cache
                   /\ used' = Touch(used, key)
                   /\ answered' = answered
                   /\ lastOutcome' = Assign(lastOutcome, key, "hit")
                   /\ lastLookup' = [n |-> lastLookup.n + 1, method |-> method, key |-> key,
                                     prev |-> Latest(key),
                                     hit |-> TRUE, innerCalled |-> FALSE,
                                     inner |-> [err |-> "", result |-> ZeroResult],
                                     result |-> g.value, err |-> ""]
              ELSE /\ cache' = IF store THEN put(g.cache, key, out.result) ELSE g.cache
                   /\ used' = IF store THEN Touch(used, key) ELSE used
                   /\ answered' = IF store THEN Assign(answered, key, [result |-> out.result, method |-> method]) ELSE answered
                   /\ lastOutcome' = Assign(lastOutcome, key,
                                            IF out.err # "" THEN "err"
                                            ELSE IF store THEN "stored" ELSE "empty")
                   /\ lastLookup' = [n |-> lastLookup.n + 1, method |-> method, key |-> key,
                                     prev |-> Latest(key),
                                     hit |-> FALSE, innerCalled |-> TRUE, inner |-> out,
                                     result |-> out.result, err |-> out.err]
    /\ UNCHANGED <<vars, concVars, opLog, xformVars>>

\* CachedGeocoder.ForwardGeocode(ctx, name, state)
ForwardGeocode(name, state) ==
    \E out \in InnerOutcomes : Lookup("forward", FwdKey(name, state), out)

\* CachedGeocoder.ReverseGeocode(ctx, lat, lon)
ReverseGeocode(lat, lon) ==
    \E out \in InnerOutcomes : Lookup("reverse", RevKey(lat, lon), out)

NextGeo ==
    \/ \E a \in FwdInputs : ForwardGeocode(a[1], a[2])
    \/ \E a \in RevInputs : ReverseGeocode(a[1], a[2])

SpecGeo == Init /\ [][NextGeo]_allVars

\* this step is a call of the CachedGeocoder
LookupStep == lastLookup'.n = lastLookup.n + 1

\* the key has an entry: it was stored and not evicted since
Cached(key) == key \in MostRecent(cache.maxEntries)

\* C14: when the inner geocoder returns, without error, a result whose
\* FormattedAddress is empty, the CachedGeocoder returns it, stores nothing
\* and leaves the cache as it was; and the next lookup of a key whose latest
\* lookup ended that way calls the inner geocoder again.
C14_NegativeNotCached ==
    /\ [][(LookupStep /\ lastLookup'.innerCalled /\ lastLookup'.inner.err = ""
             /\ lastLookup'.inner.result.addr = "") =>
            /\ cache' = cache
            /\ ~get(cache', lastLookup'.key).ok
            /\ lastLookup'.result = lastLookup'.inner.result
            /\ lastLookup'.err = ""]_allVars
    /\ [](lastLookup.prev = "empty" => lastLookup.innerCalled)

\* a key whose latest lookup gave a negative result was looked up again and
\* got a negative result again, with another key in the cache
C14_Witness ==
    /\ lastLookup.prev = "empty"
    /\ lastLookup.innerCalled
    /\ lastLookup.inner = [err |-> "", result |-> ZeroResult]
    /\ cache.head # NIL
    /\ ~get(cache, lastLookup.key).ok

\* C15: when the inner geocoder returns an error the CachedGeocoder returns
\* that error and the accompanying result as they are, stores nothing and
\* leaves the cache, contents and recency order, as it was; a later lookup of
\* a key whose latest lookup ended in an error calls the inner geocoder again.
C15_ErrorsBypassCache ==
    /\ [][(LookupStep /\ lastLookup'.innerCalled /\ lastLookup'.inner.err # "") =>
            /\ cache' = cache
            /\ used' = used
            /\ lastLookup'.err = lastLookup'.inner.err
            /\ lastLookup'.result = lastLookup'.inner.result]_allVars
    /\ [](lastLookup.prev = "err" => lastLookup.innerCalled)
    /\ [](lastLookup.err # "" => lastLookup.innerCalled)

\* the inner geocoder failed twice in a row for a key, the second time
\* with a result that has an address, with two other keys in the cache
C15_Witness ==
    /\ lastLookup.prev = "err"
    /\ lastLookup.err = "timeout"
    /\ lastLookup.result = ResultA
    /\ Len(used) >= 2
    /\ ~get(cache, lastLookup.key).ok

\* C16: a lookup of a key that was answered with a non-empty result and has
\* not been evicted since returns the stored result, without error and without
\* calling the inner geocoder; a lookup of any other key calls the inner
\* geocoder whatever the cache holds; the entry a forward lookup hits was
\* stored by a forward lookup and the entry a reverse lookup hits by a reverse
\* lookup, their keys starting with "fwd:" and "rev:".
C16_HitAvoidsProvider ==
    /\ [][(LookupStep /\ Cached(lastLookup'.key)) =>
            /\ ~lastLookup'.innerCalled
            /\ lastLookup'.hit
            /\ lastLookup'.result = answered[lastLookup'.key].result
            /\ lastLookup'.method = answered[lastLookup'.key].method
            /\ lastLookup'.err = ""]_allVars
    /\ [][(LookupStep /\ ~Cached(lastLookup'.key)) => lastLookup'.innerCalled]_allVars
    /\ []((lastLookup.method = "forward" => SubSeq(lastLookup.key, 1, 4) = "fwd:")
          /\ (lastLookup.method = "reverse" => SubSeq(lastLookup.key, 1, 4) = "rev:"))

\* a reverse lookup was served from the cache while another key, with a
\* different result, was cached too and a third had been evicted
C16_Witness ==
    /\ lastLookup.hit
    /\ lastLookup.method = "reverse"
    /\ Len(used) > cache.maxEntries
    /\ \E k \in Retrievable(cache) : answered[k].result # lastLookup.result


\* ===================================================== transform engine

\* ---------------------------------------------------------------- time

\* t.UTC()
UTC(t) ==
    LET h == t.hour - t.off
    IN  IF h < 0 THEN [t EXCEPT !.day = t.day - 1, !.hour = h + 24, !.off = 0]
        ELSE IF h > 23 THEN [t EXCEPT !.day = t.day + 1, !.hour = h - 24, !.off = 0]
        ELSE [t EXCEPT !.hour = h, !.off = 0]

\* t.IsZero()
IsZero(t) == UTC(t) = ZeroTime

\* parseHHMM(baseDate, hhmm)
parseHHMM(baseDate, hhmm0) ==
    LET t    == TrimSpace(hhmm0)
        hhmm == IF Len(t) = 3 THEN "0" \o t ELSE t
        hour == Atoi(SubSeq(hhmm, 1, 2))
        mins == Atoi(SubSeq(hhmm, 3, Len(hhmm)))
    IN  IF Len(t) < 3 THEN baseDate
        ELSE IF ~hour.ok \/ ~mins.ok \/ hour.n < 0 \/ hour.n > 23 \/ mins.n < 0 \/ mins.n > 59
                THEN baseDate
                ELSE [day |-> baseDate.day, hour |-> hour.n, min |-> mins.n, sec |-> 0, off |-> 0]

\* deriveTimeBucket(t)
deriveTimeBucket(t) ==
    IF IsZero(t) THEN ZeroTime ELSE [UTC(t) EXCEPT !.min = 0, !.sec = 0]

\* --------------------------------------------------------------- parse

\* parseFloatOrZero(s), the result counted in units of 10^-dec
parseFloatOrZero(s0, dec) ==
    LET s == TrimSpace(s0)
        p == ParseFloat(s, dec)
    IN  IF s = "" THEN Num(0) ELSE IF ~p.ok THEN Num(0) ELSE p.f

\* parseMagnitudeField(eventType, size, fScale, speed), in units of 1e-4
parseMagnitudeField(eventType, size, fScale, speed) ==
    IF eventType \notin {"hail", "tornado", "wind"} THEN Num(0)
    ELSE LET col == IF eventType = "hail" THEN size
                    ELSE IF eventType = "tornado" THEN fScale ELSE speed
             t   == TrimSpace(col)
             r   == TrimPrefix(TrimPrefix(t, "EF"), "F")
             p   == ParseFloat(r, 4)
         IN  IF t = "" \/ EqualFold(t, "UNK") THEN Num(0)
             ELSE IF ~p.ok THEN Num(0) ELSE p.f

\* s without its trailing zeros
RECURSIVE StripZeros(_)
StripZeros(s) ==
    IF s # "" /\ At(s, Len(s)) = "0" THEN StripZeros(SubSeq(s, 1, Len(s) - 1)) ELSE s

\* fmt's %g of a magnitude counted in units of 1e-4
FormatG(x) ==
    IF x.k = "nan" THEN "NaN"
    ELSE IF x.k = "inf" THEN (IF x.v < 0 THEN "-Inf" ELSE "+Inf")
    ELSE LET a    == IF x.v < 0 THEN -x.v ELSE x.v
             frac == StripZeros(PadStr(a % 10000, 4))
         IN  (IF x.v < 0 THEN "-" ELSE "") \o NatStr(a \div 10000)
                 \o (IF frac = "" THEN "" ELSE "." \o frac)

\* hex.EncodeToString(sha256.Sum256(input)[:8]): the digest is named by the
\* string it was computed from
Hex16(input) == "sha256(" \o input \o ")"

\* generateID with the time string left out of the hashed input
generateID_NoTime(eventType, state, lat, lon, timeStr, magnitude) ==
    LET input == eventType \o "|" \o state \o "|" \o FormatF(lat, 7, 4) \o "|"
                     \o FormatF(lon, 7, 4) \o "|" \o FormatG(magnitude)
    IN  IF eventType = "" THEN Hex16(input) ELSE eventType \o "-" \o Hex16(input)

\* generateID(eventType, state, lat, lon, timeStr, magnitude)
generateID(eventType, state, lat, lon, timeStr, magnitude) ==
    LET input == eventType \o "|" \o state \o "|" \o FormatF(lat, 7, 4) \o "|"
                     \o FormatF(lon, 7, 4) \o "|" \o timeStr \o "|" \o FormatG(magnitude)
    IN  IF eventType = "" THEN Hex16(input) ELSE eventType \o "-" \o Hex16(input)

\* ParseRawEvent(raw): json.Unmarshal fails unless the payload is a JSON
\* object (or null) whose listed keys hold strings
ParseRawEvent(r) ==
    IF r.json # "object"
       THEN [ok |-> FALSE, event |-> ZeroEvent]
       ELSE LET rec       == r.rec
                lat       == parseFloatOrZero(rec.Lat, 7)
                lon       == parseFloatOrZero(rec.Lon, 7)
                magnitude == parseMagnitudeField(rec.EventType, rec.Size, rec.FScale, rec.Speed)
            IN  [ok    |-> TRUE,
                 event |-> [ZeroEvent EXCEPT
                              !.id = generateID(rec.EventType, rec.State, lat, lon, rec.Time, magnitude),
                              !.eventType = rec.EventType,
                              !.lat = lat,
                              !.lon = lon,
                              !.magnitude = magnitude,
                              !.eventTime = parseHHMM(r.timestamp, rec.Time),
                              !.locRaw = rec.Location,
                              !.state = rec.State,
                              !.county = rec.County,
                              !.comments = rec.Comments,
                              !.rawPayload = rec]]

\* -------------------------------------------------------------- enrich

\* a magnitude of w + h/100, in units of 1e-4
Mag(w, h) == w * 10000 + h * 100

\* normalizeEventType(value)
normalizeEventType(value) == IF value \in {"hail", "wind", "tornado"} THEN value ELSE ""

\* normalizeUnit(eventType, unit)
normalizeUnit(eventType, unit0) ==
    LET unit == ToLower(TrimSpace(unit0))
    IN  IF unit # "" THEN unit
        ELSE IF eventType = "hail" THEN "in"
        ELSE IF eventType = "wind" THEN "mph"
        ELSE IF eventType = "tornado" THEN "f_scale"
        ELSE ""

\* normalizeMagnitude that takes 10 itself for a size in inches
normalizeMagnitude_Above10(eventType, magnitude, unit) ==
    IF FIsZero(magnitude) THEN magnitude
    ELSE IF eventType = "hail" /\ unit = "in" /\ ~FLe(magnitude, Mag(10, 0))
                 /\ FGe(magnitude, Mag(10, 0))
            THEN FDiv100(magnitude)
            ELSE magnitude

\* normalizeMagnitude(eventType, magnitude, unit)
normalizeMagnitude(eventType, magnitude, unit) ==
    IF FIsZero(magnitude) THEN magnitude
    ELSE IF eventType = "hail" /\ unit = "in" /\ FGe(magnitude, Mag(10, 0))
            THEN FDiv100(magnitude)
            ELSE magnitude

\* deriveSeverity without its test for a zero magnitude
deriveSeverity_ZeroLabelled(eventType, magnitude) ==
    IF eventType = "hail"
            THEN IF FLt(magnitude, Mag(0, 75)) THEN <<"minor">>
                 ELSE IF FLt(magnitude, Mag(1, 50)) THEN <<"moderate">>
                 ELSE IF FLt(magnitude, Mag(2, 50)) THEN <<"severe">>
                 ELSE <<"extreme">>
    ELSE IF eventType = "wind"
            THEN IF FLt(magnitude, Mag(50, 0)) THEN <<"minor">>
                 ELSE IF FLt(magnitude, Mag(74, 0)) THEN <<"moderate">>
                 ELSE IF FLt(magnitude, Mag(96, 0)) THEN <<"severe">>
                 ELSE <<"extreme">>
    ELSE IF eventType = "tornado"
            THEN IF FLe(magnitude, Mag(1, 0)) THEN <<"minor">>
                 ELSE IF FEq(magnitude, Mag(2, 0)) THEN <<"moderate">>
                 ELSE IF FLe(magnitude, Mag(4, 0)) THEN <<"severe">>
                 ELSE <<"extreme">>
    ELSE <<>>

\* deriveSeverity with the thresholds of hail and wind in the lower class
deriveSeverity_Closed(eventType, magnitude) ==
    IF FIsZero(magnitude) THEN <<>>
    ELSE IF eventType = "hail"
            THEN IF FLe(magnitude, Mag(0, 75)) THEN <<"minor">>
                 ELSE IF FLe(magnitude, Mag(1, 50)) THEN <<"moderate">>
                 ELSE IF FLe(magnitude, Mag(2, 50)) THEN <<"severe">>
                 ELSE <<"extreme">>
    ELSE IF eventType = "wind"
            THEN IF FLe(magnitude, Mag(50, 0)) THEN <<"minor">>
                 ELSE IF FLe(magnitude, Mag(74, 0)) THEN <<"moderate">>
                 ELSE IF FLe(magnitude, Mag(96, 0)) THEN <<"severe">>
                 ELSE <<"extreme">>
    ELSE IF eventType = "tornado"
            THEN IF FLe(magnitude, Mag(1, 0)) THEN <<"minor">>
                 ELSE IF FEq(magnitude, Mag(2, 0)) THEN <<"moderate">>
                 ELSE IF FLe(magnitude, Mag(4, 0)) THEN <<"severe">>
                 ELSE <<"extreme">>
    ELSE <<>>

\* deriveSeverity(eventType, magnitude)
deriveSeverity(eventType, magnitude) ==
    IF FIsZero(magnitude) THEN <<>>
    ELSE IF eventType = "hail"
            THEN IF FLt(magnitude, Mag(0, 75)) THEN <<"minor">>
                 ELSE IF FLt(magnitude, Mag(1, 50)) THEN <<"moderate">>
                 ELSE IF FLt(magnitude, Mag(2, 50)) THEN <<"severe">>
                 ELSE <<"extreme">>
    ELSE IF eventType = "wind"
            THEN IF FLt(magnitude, Mag(50, 0)) THEN <<"minor">>
                 ELSE IF FLt(magnitude, Mag(74, 0)) THEN <<"moderate">>
                 ELSE IF FLt(magnitude, Mag(96, 0)) THEN <<"severe">>
                 ELSE <<"extreme">>
    ELSE IF eventType = "tornado"
            THEN IF FLe(magnitude, Mag(1, 0)) THEN <<"minor">>
                 ELSE IF FEq(magnitude, Mag(2, 0)) THEN <<"moderate">>
                 ELSE IF FLe(magnitude, Mag(4, 0)) THEN <<"severe">>
                 ELSE <<"extreme">>
    ELSE <<>>

\* the number of characters of s from index i on that belong to chars, and
\* the number of characters of s up to index i that do
RECURSIVE RunLen(_, _, _)
RunLen(s, i, chars) ==
    IF i <= Len(s) /\ IndexIn(At(s, i), chars) # 0 THEN 1 + RunLen(s, i + 1, chars) ELSE 0

RECURSIVE RunLenBack(_, _, _)
RunLenBack(s, i, chars) ==
    IF i >= 1 /\ IndexIn(At(s, i), chars) # 0 THEN 1 + RunLenBack(s, i - 1, chars) ELSE 0

\* extractSourceOffice(comments): sourceOfficeRe is \(([A-Z]{3,5})\)\s*$
extractSourceOffice(comments0) ==
    LET s == TrimSpace(comments0)
        n == Len(s)
        r == RunLenBack(s, n - 1, UpperAlpha)
    IN  IF s = "" THEN ""
        ELSE IF At(s, n) = ")" /\ r >= 3 /\ r <= 5 /\ n - 1 - r >= 1 /\ At(s, n - 1 - r) = "("
                THEN SubSeq(s, n - r, n - 1)
                ELSE ""

\* parseLocation(location): locationRe is
\* ^(\d+(?:\.\d+)?)\s+([NSEW]{1,3})\s+(.+)$
parseLocation(location0) ==
    LET s    == TrimSpace(location0)
        ws   == " \t\n\r"
        d1   == RunLen(s, 1, Digits)
        d2   == IF At(s, d1 + 1) = "." THEN RunLen(s, d1 + 2, Digits) ELSE 0
        nEnd == IF d2 > 0 THEN d1 + 1 + d2 ELSE d1
        w1   == RunLen(s, nEnd + 1, ws)
        c    == RunLen(s, nEnd + w1 + 1, "NSEW")
        cEnd == nEnd + w1 + c
        w2   == RunLen(s, cEnd + 1, ws)
        rest == SubSeq(s, cEnd + w2 + 1, Len(s))
        dist == ParseFloat(SubSeq(s, 1, nEnd), 4)
        none == [name |-> s, distance |-> <<>>, direction |-> <<>>]
    IN  IF s = "" THEN [name |-> "", distance |-> <<>>, direction |-> <<>>]
        ELSE IF d1 >= 1 /\ w1 >= 1 /\ c >= 1 /\ c <= 3 /\ w2 >= 1 /\ rest # ""
                  /\ IndexIn("\n", rest) = 0
                THEN IF ~dist.ok THEN none
                     ELSE [name      |-> TrimSpace(rest),
                           distance  |-> <<dist.f>>,
                           direction |-> <<SubSeq(s, nEnd + w1 + 1, cEnd)>>]
                ELSE none

\* EnrichStormEvent(event), with now the instant clock.Now() returns
EnrichStormEvent(e, now) ==
    LET eventType == normalizeEventType(e.eventType)
        unit      == normalizeUnit(eventType, e.unit)
        magnitude == normalizeMagnitude(eventType, e.magnitude, unit)
        loc       == parseLocation(e.locRaw)
    IN  [e EXCEPT !.eventType = eventType,
                  !.unit = unit,
                  !.magnitude = magnitude,
                  !.severity = deriveSeverity(eventType, magnitude),
                  !.sourceOffice = extractSourceOffice(e.comments),
                  !.locName = loc.name,
                  !.locDistance = loc.distance,
                  !.locDirection = loc.direction,
                  !.timeBucket = deriveTimeBucket(e.eventTime),
                  !.processedAt = now]

\* ------------------------------------------------------------- geocode

\* one call on the Geocoder port and what it returned
ProviderCall(method, e, out) ==
    [method |-> method, name |-> e.locName, state |-> e.state, lat |-> e.lat, lon |-> e.lon,
     out |-> out]

\* hasCoords, hasName
hasCoords(e) == ~FIsZero(e.lat) \/ ~FIsZero(e.lon)
hasName(e) == e.locName # "" /\ e.state # ""

\* the forward branch of EnrichWithGeocoding
forwardBranch(e, out) ==
    [calls |-> <<ProviderCall("forward", e, out)>>,
     event |-> IF out.err # "" THEN [e EXCEPT !.geoSource = "failed"]
               ELSE IF ~FIsZero(out.result.lat) \/ ~FIsZero(out.result.lon)
                       THEN [e EXCEPT !.lat = out.result.lat,
                                      !.lon = out.result.lon,
                                      !.formattedAddress = out.result.addr,
                                      !.placeName = out.result.place,
                                      !.geoConfidence = out.result.conf,
                                      !.geoSource = "forward"]
                       ELSE [e EXCEPT !.geoSource = "original"]]

\* the reverse branch with an error path that also clears the coordinates
reverseBranch_FailDropsCoords(e, out) ==
    [calls |-> <<ProviderCall("reverse", e, out)>>,
     event |-> IF out.err # "" THEN [e EXCEPT !.geoSource = "failed", !.lat = Num(0), !.lon = Num(0)]
               ELSE IF out.result.addr # ""
                       THEN [e EXCEPT !.formattedAddress = out.result.addr,
                                      !.placeName = out.result.place,
                                      !.geoConfidence = out.result.conf,
                                      !.geoSource = "reverse"]
                       ELSE [e EXCEPT !.geoSource = "original"]]

\* the reverse branch of EnrichWithGeocoding
reverseBranch(e, out) ==
    [calls |-> <<ProviderCall("reverse", e, out)>>,
     event |-> IF out.err # "" THEN [e EXCEPT !.geoSource = "failed"]
               ELSE IF out.result.addr # ""
                       THEN [e EXCEPT !.formattedAddress = out.result.addr,
                                      !.placeName = out.result.place,
                                      !.geoConfidence = out.result.conf,
                                      !.geoSource = "reverse"]
                       ELSE [e EXCEPT !.geoSource = "original"]]

\* the strategy with the forward lookup tried whenever there is a name
geocodeWith_ForwardFirst(e, out) ==
    IF hasName(e) THEN forwardBranch(e, out)
    ELSE IF hasCoords(e) THEN reverseBranch(e, out)
    ELSE [calls |-> <<>>, event |-> [e EXCEPT !.geoSource = "original"]]

\* EnrichWithGeocoding with a geocoder present; out is what the geocoder
\* returns if it is called
geocodeWith(e, out) ==
    IF ~hasCoords(e) /\ hasName(e) THEN forwardBranch(e, out)
    ELSE IF hasCoords(e) THEN reverseBranch(e, out)
    ELSE [calls |-> <<>>, event |-> [e EXCEPT !.geoSource = "original"]]

\* EnrichWithGeocoding that labels the event when there is no geocoder
EnrichWithGeocoding_NilLabels(e, gc, out) ==
    IF gc = "nil" THEN [calls |-> <<>>, event |-> [e EXCEPT !.geoSource = "original"]]
    ELSE geocodeWith(e, out)

\* EnrichWithGeocoding(ctx, event, geocoder, logger): the event returned and
\* the calls made on the geocoder
EnrichWithGeocoding(e, gc, out) ==
    IF gc = "nil" THEN [calls |-> <<>>, event |-> e] ELSE geocodeWith(e, out)

\* ----------------------------------------------------------- serialize

\* the keys json.Marshal leaves out of the object: omitempty fields holding
\* their zero value (omitempty does nothing on struct and time values)
OmittedKeys(e) ==
    {k \in {"comments", "source_office", "formatted_address", "place_name", "geo_source",
            "location.raw", "location.name", "location.state", "location.county"} :
        \/ k = "comments" /\ e.comments = ""
        \/ k = "source_office" /\ e.sourceOffice = ""
        \/ k = "formatted_address" /\ e.formattedAddress = ""
        \/ k = "place_name" /\ e.placeName = ""
        \/ k = "geo_source" /\ e.geoSource = ""
        \/ k = "location.raw" /\ e.locRaw = ""
        \/ k = "location.name" /\ e.locName = ""
        \/ k = "location.state" /\ e.state = ""
        \/ k = "location.county" /\ e.county = ""}
    \cup (IF e.severity = <<>> THEN {"severity"} ELSE {})
    \cup (IF e.locDistance = <<>> THEN {"location.distance"} ELSE {})
    \cup (IF e.locDirection = <<>> THEN {"location.direction"} ELSE {})
    \cup (IF FIsZero(e.geoConfidence) THEN {"geo_confidence"} ELSE {})

\* SerializeStormEvent(event): json.Marshal rejects NaN and infinities, and
\* never writes RawPayload
SerializeStormEvent(e) ==
    IF /\ FFinite(e.lat) /\ FFinite(e.lon) /\ FFinite(e.magnitude) /\ FFinite(e.geoConfidence)
       /\ (e.locDistance # <<>> => FFinite(e.locDistance[1]))
       THEN [ok  |-> TRUE,
             out |-> [key     |-> e.id,
                      fields  |-> [e EXCEPT !.rawPayload = ZeroRec],
                      omitted |-> OmittedKeys(e),
                      headers |-> [type |-> e.eventType, processed_at |-> e.processedAt]]]
       ELSE [ok |-> FALSE, out |-> ZeroOutput]

\* ------------------------------------------- inputs of the transform engine

EventTypes == {"hail", "wind", "tornado", "Hail"}
SizeStrings == {"", "UNK", "125", "1.75", "1500", " 75 ", "-5", "NaN"}
FScaleStrings == {"", "EF2"}
SpeedStrings == {"", "65"}

\* location, state, lat, lon
Places ==
    {<<"8 ESE Chappel", "TX", "31.02", "-98.44">>,
     <<"AUSTIN", "TX", "", "">>,
     <<" 2.5 N  Mc Alester ", "", "abc", "0">>,
     <<"5 NNNN Nowhere", "OK", "0", "-95.77">>,
     <<"", "", "", "">>}

CommentStrings == {"Quarter hail reported. (FWD) ", "no office (ab)"}
TimeStrings == {"1510", "2575"}
Timestamps == {[day |-> 739001, hour |-> 22, min |-> 30, sec |-> 15, off |-> -5]}

RawRecords ==
    {[Time |-> t, Size |-> sz, FScale |-> fs, Speed |-> sp, Location |-> p[1],
      County |-> "San Saba", State |-> p[2], Lat |-> p[3], Lon |-> p[4],
      Comments |-> c, EventType |-> et] :
        t \in TimeStrings, sz \in SizeStrings, fs \in FScaleStrings, sp \in SpeedStrings,
        p \in Places, c \in CommentStrings, et \in EventTypes}

\* records that differ in their Time column only, received at midnight UTC,
\* in the afternoon UTC, and in the evening five hours west of UTC
HHMMStrings == {"1510", "930", " 0000 ", "", "12", "ab10", "2510", "1299", "2359"}
IngestTimes ==
    {[day |-> 739001, hour |-> 0, min |-> 0, sec |-> 0, off |-> 0],
     [day |-> 739001, hour |-> 14, min |-> 5, sec |-> 9, off |-> 0],
     [day |-> 739001, hour |-> 22, min |-> 30, sec |-> 15, off |-> -5]}
HHMMEvents ==
    {[json |-> "object", rec |-> [ZeroRec EXCEPT !.Time = t, !.EventType = "wind", !.Speed = "65"],
      timestamp |-> ts] : t \in HHMMStrings, ts \in IngestTimes}

RawEvents ==
    {[json |-> "object", rec |-> rec, timestamp |-> ts] : rec \in RawRecords, ts \in Timestamps}
    \cup {[json |-> j, rec |-> ZeroRec, timestamp |-> ts] :
            j \in {"object", "invalid", "mistyped"}, ts \in Timestamps}
    \cup HHMMEvents

\* a result with coordinates and no address, and one with an address only
CoordsOnly == [lat |-> Num(311000000), lon |-> Num(-985000000), addr |-> "", place |-> "",
               conf |-> Num(50)]
AddrOnly == [lat |-> Num(0), lon |-> Num(0), addr |-> "San Saba County, Texas",
             place |-> "San Saba", conf |-> Num(40)]

\* what the geocoder can return: results decoded from the provider's JSON
ProviderOutcomes ==
    InnerOutcomes \cup {[err |-> "", result |-> CoordsOnly], [err |-> "", result |-> AddrOnly]}

\* Transform is called with some message, on a transformer built with or
\* without a geocoder
InitTransform ==
    /\ PipelineInit
    /\ CacheInit
    /\ raw \in RawEvents
    /\ geocoder \in {"nil", "set"}
    /\ stage = "raw"
    /\ event = ZeroEvent
    /\ before = ZeroEvent
    /\ providerCalls = <<>>
    /\ clock = 1
    /\ output = [returned |-> FALSE, err |-> "", out |-> ZeroOutput]

\* event, err := domain.ParseRawEvent(raw)
TransformParse ==
    /\ stage = "raw"
    /\ LET p == ParseRawEvent(raw)
       IN  IF p.ok
              THEN /\ stage' = "parsed"
                   /\ event' = p.event
                   /\ output' = output
              ELSE /\ stage' = "failed"
                   /\ event' = event
                   /\ output' = [returned |-> TRUE, err |-> "parse raw event", out |-> ZeroOutput]
    /\ before' = event
    /\ UNCHANGED <<vars, concVars, cacheVars, geoVars, raw, geocoder, providerCalls, clock>>

\* event = domain.EnrichStormEvent(event)
TransformEnrich ==
    /\ stage = "parsed"
    /\ stage' = "enriched"
    /\ event' = EnrichStormEvent(event, clock)
    /\ clock' = clock + 1
    /\ before' = event
    /\ UNCHANGED <<vars, concVars, cacheVars, geoVars, raw, geocoder, providerCalls, output>>

\* event = domain.EnrichWithGeocoding(ctx, event, t.geocoder, t.logger)
TransformGeocode ==
    /\ stage = "enriched"
    /\ \E out \in ProviderOutcomes :
          LET g == EnrichWithGeocoding(event, geocoder, out)
          IN  /\ event' = g.event
              /\ providerCalls' = providerCalls \o g.calls
    /\ stage' = "geocoded"
    /\ before' = event
    /\ UNCHANGED <<vars, concVars, cacheVars, geoVars, raw, geocoder, clock, output>>

\* return domain.SerializeStormEvent(event)
TransformSerialize ==
    /\ stage = "geocoded"
    /\ LET z == SerializeStormEvent(event)
       IN  /\ stage' = IF z.ok THEN "done" ELSE "failed"
           /\ output' = [returned |-> TRUE,
                         err |-> IF z.ok THEN "" ELSE "serialize storm event",
                         out |-> z.out]
    /\ UNCHANGED <<vars, concVars, cacheVars, geoVars, raw, geocoder, event, before, providerCalls, clock>>

NextTransform ==
    \/ TransformParse
    \/ TransformEnrich
    \/ TransformGeocode
    \/ TransformSerialize

SpecTransform == InitTransform /\ [][NextTransform]_allVars

\* EnrichStormEvent is applied to an event it already returned
EnrichAgain ==
    /\ stage = "enriched"
    /\ stage' = "enriched twice"
    /\ event' = EnrichStormEvent(event, clock)
    /\ clock' = clock + 1
    /\ before' = event
    /\ UNCHANGED <<vars, concVars, cacheVars, geoVars, raw, geocoder, providerCalls, output>>

NextEnrich ==
    \/ TransformParse
    \/ TransformEnrich
    \/ EnrichAgain

SpecEnrich == InitTransform /\ [][NextEnrich]_allVars

\* EnrichWithGeocoding has returned in the Transform call
AfterGeocode ==
    \/ stage \in {"geocoded", "done"}
    \/ stage = "failed" /\ output.err = "serialize storm event"

\* C17: with a geocoder present EnrichWithGeocoding calls the provider at
\* most once per event: ReverseGeocode with the event's coordinates, and not
\* ForwardGeocode, when lat or lon is non-zero; otherwise ForwardGeocode with
\* the location name and state when both are non-empty; otherwise it makes no
\* call and labels the event 'original'.
C17_StrategySelection ==
    (AfterGeocode /\ geocoder = "set") =>
        LET coords == before.lat # Num(0) \/ before.lon # Num(0)
            named  == before.locName # "" /\ before.state # ""
        IN  /\ Len(providerCalls) <= 1
            /\ coords =>
                 /\ Len(providerCalls) = 1
                 /\ providerCalls[1].method = "reverse"
                 /\ providerCalls[1].lat = before.lat
                 /\ providerCalls[1].lon = before.lon
            /\ (~coords /\ named) =>
                 /\ Len(providerCalls) = 1
                 /\ providerCalls[1].method = "forward"
                 /\ providerCalls[1].name = before.locName
                 /\ providerCalls[1].state = before.state
            /\ (~coords /\ ~named) =>
                 /\ providerCalls = <<>>
                 /\ event.geoSource = "original"

\* an event with coordinates, a name and a state was reverse geocoded
C17_Witness ==
    /\ stage = "geocoded"
    /\ geocoder = "set"
    /\ before.lat # Num(0)
    /\ before.locName # "" /\ before.state # ""
    /\ Len(providerCalls) = 1
    /\ providerCalls[1].method = "reverse"

C19_NilGeocoderNoOp ==
    (AfterGeocode /\ geocoder = "nil") =>
        /\ event = before
        /\ event.geoSource = ""
        /\ providerCalls = <<>>

\* an event with a name and a state went through EnrichWithGeocoding with no
\* geocoder
C19_Witness ==
    /\ stage = "geocoded"
    /\ geocoder = "nil"
    /\ event.locName # "" /\ event.state # ""
    /\ event.lat = Num(0) /\ event.lon = Num(0)

\* C20: for every event parse produces, applying EnrichStormEvent to the
\* event EnrichStormEvent returned changes no field other than processed_at.
C20_EnrichIdempotent ==
    stage = "enriched twice" =>
        [event EXCEPT !.processedAt = 0] = [before EXCEPT !.processedAt = 0]

\* Enrichment has been applied in the Transform call
AfterEnrich ==
    \/ stage \in {"enriched", "geocoded", "done"}
    \/ stage = "failed" /\ output.err = "serialize storm event"

\* C21: after enrichment the severity is absent if and only if the magnitude
\* is 0 or the event type is not one of hail, wind, tornado; otherwise it is
\* exactly one of minor, moderate, severe, extreme.
C21_SeverityPresence ==
    AfterEnrich =>
        /\ event.severity = <<>> <=>
              (FIsZero(event.magnitude) \/ event.eventType \notin {"hail", "wind", "tornado"})
        /\ event.severity # <<>> =>
              /\ Len(event.severity) = 1
              /\ event.severity[1] \in {"minor", "moderate", "severe", "extreme"}

\* a wind report of 65 mph was enriched and is moderate, and so was a hail
\* report whose size column is not a finite number
C21_Witness ==
    /\ stage = "enriched"
    /\ \/ event.eventType = "wind" /\ event.magnitude = Num(Mag(65, 0))
          /\ event.severity = <<"moderate">>
       \/ event.eventType = "hail" /\ event.magnitude = NaN /\ event.severity = <<"extreme">>

\* ------------------------------------------------ two messages and their ids

\* the fields of a RawEvent that ParseRawEvent does not read
IdEnvelopes ==
    {[topic |-> "raw-weather-reports", partition |-> 0, offset |-> 7, key |-> "k1"],
     [topic |-> "replayed-reports", partition |-> 1, offset |-> 8, key |-> "k2"]}

\* location, county, comments, ingest timestamp and envelope
IdOthers ==
    {<<"8 ESE Chappel", "San Saba", "Quarter hail reported. (FWD)",
       [day |-> 739001, hour |-> 22, min |-> 30, sec |-> 15, off |-> 0], 7>>,
     <<"AUSTIN", "Travis", "", [day |-> 739002, hour |-> 3, min |-> 0, sec |-> 0, off |-> 0], 8>>}

\* the messages whose ids are compared
IdEvents ==
    {[json      |-> "object",
      rec       |-> [Time |-> t, Size |-> sz, FScale |-> "", Speed |-> sp, Location |-> o[1],
                     County |-> o[2], State |-> st, Lat |-> la, Lon |-> lo,
                     Comments |-> o[3], EventType |-> et],
      timestamp |-> o[4],
      envelope  |-> CHOOSE v \in IdEnvelopes : v.offset = o[5]] :
        t \in {"1510", "1511"}, sz \in {"1.75", "1.750", "65"}, sp \in {"65", ""},
        st \in {"TX", "OK"}, la \in {"31.02", "31.02004", "31.0201", "-0.00001", "0.00001"},
        lo \in {"-98.44", "-98.45"}, et \in {"hail", "wind"}, o \in IdOthers}

\* the messages processed first
IdFirst ==
    {m \in IdEvents : /\ m.rec.State = "TX" /\ m.rec.Lon = "-98.44" /\ m.rec.Time = "1510"
                      /\ m.rec.Speed = "65" /\ m.envelope.offset = 7}

InitId ==
    /\ PipelineInit
    /\ CacheInit
    /\ raw \in IdFirst
    /\ geocoder = "nil"
    /\ stage = "raw"
    /\ event = ZeroEvent
    /\ before = ZeroEvent
    /\ providerCalls = <<>>
    /\ clock = 1
    /\ output = [returned |-> FALSE, err |-> "", out |-> ZeroOutput]

\* ParseRawEvent is called on a second message; before keeps the event of the
\* first
ParseAnother ==
    /\ stage = "parsed"
    /\ \E m \in IdEvents :
          /\ raw' = m
          /\ event' = ParseRawEvent(m).event
    /\ stage' = "parsed again"
    /\ before' = event
    /\ UNCHANGED <<vars, concVars, cacheVars, geoVars, geocoder, providerCalls, clock, output>>

NextId ==
    \/ TransformParse
    \/ ParseAnother

SpecId == InitId /\ [][NextId]_allVars

\* x rounded to 4 decimals, as a number counted in units of 1e-4
Round4(x) ==
    IF x.k # "num" THEN x
    ELSE IF x.v < 0 THEN Num(-((-x.v + 500) \div 1000)) ELSE Num((x.v + 500) \div 1000)

\* the six fields of a parsed event as values: lat and lon rounded to 4
\* decimals
SixValues(e) ==
    <<e.rawPayload.EventType, e.state, Round4(e.lat), Round4(e.lon), e.rawPayload.Time,
      e.magnitude>>

\* the six fields as generateID renders them
SixRendered(e) ==
    <<e.rawPayload.EventType, e.state, FormatF(e.lat, 7, 4), FormatF(e.lon, 7, 4),
      e.rawPayload.Time, FormatG(e.magnitude)>>

\* the number of positions in which two tuples differ
Differences(a, b) == Cardinality({i \in 1 .. Len(a) : a[i] # b[i]})

\* C22 as stated: two messages whose six fields have the same values, lat and
\* lon compared after rounding to 4 decimals, get the same id, and two
\* messages that differ in one of the six get different ids.
C22_IdByValues ==
    stage = "parsed again" =>
        /\ SixValues(before) = SixValues(event) => before.id = event.id
        /\ Differences(SixValues(before), SixValues(event)) = 1 => before.id # event.id

\* C22, amended: the id computed by parse depends only on event_type, state,
\* the %.4f renderings of lat and lon (which keep the minus sign of a negative
\* value that rounds to zero), the HHMM string and the %g rendering of the
\* magnitude: two messages that agree on these six get the same id whatever
\* their ingest timestamp, envelope, location, county or comments, the same
\* message parsed again gets the same id, and two messages that differ in
\* exactly one of the six get different ids (SHA-256 taken as collision free).
C22_DeterministicId ==
    stage = "parsed again" =>
        /\ SixRendered(before) = SixRendered(event) => before.id = event.id
        /\ before.rawPayload = event.rawPayload => before.id = event.id
        /\ Differences(SixRendered(before), SixRendered(event)) = 1 => before.id # event.id

\* two messages with different timestamps, envelopes, locations, counties,
\* comments and different spellings of the same size and latitude got one id
C22_Witness ==
    /\ stage = "parsed again"
    /\ before.id = event.id
    /\ before.eventTime # event.eventTime
    /\ raw.envelope.offset = 8
    /\ before.locRaw # event.locRaw
    /\ before.county # event.county
    /\ before.comments # event.comments
    /\ before.rawPayload.Size # event.rawPayload.Size
    /\ before.rawPayload.Lat # event.rawPayload.Lat

\* s starts with p
HasPrefix(s, p) == Len(s) >= Len(p) /\ SubSeq(s, 1, Len(p)) = p

\* C23: every event produced by parse followed by enrich has an id of the
\* form '<event_type>-<hex16>' whose prefix is the event's own event_type,
\* and when the event's event_type is empty the id is the hex digest alone,
\* with neither prefix nor dash.
C23_IdPrefixIsEventType ==
    AfterEnrich =>
        IF event.eventType = ""
           THEN HasPrefix(event.id, "sha256(")
           ELSE HasPrefix(event.id, event.eventType \o "-sha256(")

\* ParseRawEvent has returned an event in the Transform call
AfterParse == stage # "raw" /\ ~(stage = "failed" /\ output.err = "parse raw event")

\* an HHMM string that is not malformed: after trimming, three or four
\* decimal digits (three read as HMM) with hour <= 23 and minute <= 59
WellFormedHHMM(s) ==
    LET t == TrimSpace(s)
        p == IF Len(t) = 3 THEN "0" \o t ELSE t
    IN  /\ Len(t) \in {3, 4}
        /\ AllDigits(p)
        /\ DigitsVal(SubSeq(p, 1, 2)) <= 23
        /\ DigitsVal(SubSeq(p, 3, 4)) <= 59

\* C24: begin_time is the UTC instant built from the calendar date of the
\* message's ingest timestamp and the record's HHMM (HMM tolerated); when
\* the HHMM is malformed begin_time is that date at 00:00 UTC, for every
\* ingest timestamp.
C24_BeginTime ==
    AfterParse =>
        LET t == TrimSpace(raw.rec.Time)
            p == IF Len(t) = 3 THEN "0" \o t ELSE t
        IN  IF WellFormedHHMM(raw.rec.Time)
               THEN UTC(event.eventTime) =
                        [day |-> raw.timestamp.day, hour |-> DigitsVal(SubSeq(p, 1, 2)),
                         min |-> DigitsVal(SubSeq(p, 3, 4)), sec |-> 0, off |-> 0]
               ELSE UTC(event.eventTime) =
                        [day |-> raw.timestamp.day, hour |-> 0, min |-> 0, sec |-> 0, off |-> 0]

\* C25: Transform returns an error only when the payload is not valid JSON
\* or not shaped as a record; for every payload that parses, enrich and
\* serialize do not fail and Transform returns an output.
C25_OnlyParseFails ==
    /\ stage = "failed" =>
          /\ output.err = "parse raw event"
          /\ raw.json \in {"invalid", "mistyped"}
    /\ (output.returned /\ raw.json = "object") => (stage = "done" /\ output.err = "")

\* a Commit call returned an error in this step
CommitFailed == commitWarned' = commitWarned + 1

\* C26: a failed Commit, of a loaded message or of a poison pill, is only
\* logged: the loop stays where it is and goes on to the next message, the
\* backoff, the produced counter, readiness and the result of Run are
\* untouched; every message loaded before it in the batch has had its Commit
\* called; the commit loop ends in readiness being set, never in a backoff;
\* and Run returns nil.
C26_CommitFailureNotFatal ==
    /\ [][CommitFailed =>
            /\ pc \in {"transform", "commit"}
            /\ pc' = pc
            /\ idx' = idx + 1
            /\ backoff' = backoff
            /\ streak' = streak
            /\ ready' = ready
            /\ runResult' = runResult
            /\ metrics'.produced = metrics.produced
            /\ loadCalls' = loadCalls]_vars
    /\ [](pc = "commit" =>
            /\ metrics.produced >= Len(outBatch)
            /\ \A i \in 1 .. Len(successfulRaws) :
                  (i < idx /\ msgs[successfulRaws[i]].cap) => successfulRaws[i] \in Range(commits))
    /\ [][(pc = "commit" /\ pc' # "commit") => (pc' = "loopTop" /\ ready')]_vars
    /\ [](pc = "done" => runResult = "nil")

\* both commits of a loaded batch of two failed; the batch counts as
\* produced, readiness is set and Run has returned nil
C26_Witness ==
    /\ commitWarned = 2
    /\ Len(commits) = 2
    /\ poison = {}
    /\ metrics.produced = 2
    /\ ready
    /\ pc = "done"
    /\ runResult = "nil"

\* a LoadBatch call returned an error in this step, an ExtractBatch call did
LoadFailedStep ==
    /\ Len(loadCalls') = Len(loadCalls) + 1
    /\ ~loadCalls'[Len(loadCalls')].ok
ExtractFailedStep == pc = "extract" /\ pc' = "backoff"

LoopState(p, i, batch) ==
    CASE p \in {"start", "loopTop"} -> "Idle"
      [] p = "extract" -> "Extracting"
      [] p = "transform" /\ i <= Len(batch) -> "Transforming"
      [] p = "transform" /\ i > Len(batch) -> "Loading"
      [] p = "commit" -> "Committing"
      [] p \in {"backoff", "sleep"} -> "BackingOff"
      [] p = "done" -> "Stopped"

State == LoopState(pc, idx, rawBatch)
StateNext == LoopState(pc', idx', rawBatch')

\* a stage reported an error in this step
StageError ==
    \/ ExtractFailedStep
    \/ LoadFailedStep
    \/ CommitFailed
    \/ metrics'.transformErrors # metrics.transformErrors

\* C28 as stated: the only transitions are Idle -> Extracting -> Transforming
\* -> Loading -> Committing -> Idle, from a stage to BackingOff and from
\* BackingOff (through the top of the loop) to Extracting; a stage error on a
\* live context is followed by BackingOff; once the context is cancelled the
\* next transition is to Stopped; Stopped is terminal.
C28_StateMachineAsStated ==
    /\ [][StateNext # State =>
            \/ <<State, StateNext>> \in
                  {<<"Idle", "Extracting">>, <<"Extracting", "Transforming">>,
                   <<"Transforming", "Loading">>, <<"Loading", "Committing">>,
                   <<"Committing", "Idle">>, <<"BackingOff", "Idle">>,
                   <<"BackingOff", "Extracting">>}
            \/ State \in {"Extracting", "Transforming", "Loading", "Committing"}
                  /\ StateNext = "BackingOff"
            \/ StateNext = "Stopped"]_vars
    /\ [][(StageError /\ ~cancelled) => StateNext = "BackingOff"]_vars
    /\ [][(cancelled /\ StateNext # State) => StateNext = "Stopped"]_vars
    /\ [][State = "Stopped" => StateNext = "Stopped"]_vars

\* C28, amended: the transitions of the loop are Idle -> Extracting;
\* Extracting -> Transforming on a non-empty batch, -> Idle on an empty one,
\* -> BackingOff on an error; Transforming -> Loading; Loading -> Committing
\* on success, -> BackingOff on an error, -> Idle when every message of the
\* batch was a poison pill; Committing -> Idle; BackingOff -> Idle. A
\* Transform or Commit error changes no state. Stopped is entered only on a
\* cancelled context and only from Idle, Extracting or BackingOff, so a
\* cancellation during Transforming, Loading or Committing is seen at the
\* next of those; Stopped is terminal.
C28_StateMachine ==
    /\ [][StateNext # State =>
            \/ <<State, StateNext>> \in
                  {<<"Idle", "Extracting">>, <<"Extracting", "Transforming">>,
                   <<"Extracting", "Idle">>, <<"Extracting", "BackingOff">>,
                   <<"Transforming", "Loading">>, <<"Loading", "Committing">>,
                   <<"Loading", "BackingOff">>, <<"Loading", "Idle">>,
                   <<"Committing", "Idle">>, <<"BackingOff", "Idle">>}
            \/ /\ StateNext = "Stopped"
               /\ cancelled
               /\ State \in {"Idle", "Extracting", "BackingOff"}]_vars
    /\ [][(State = "Loading" /\ StateNext = "Idle") => outBatch = <<>>]_vars
    /\ [][(State = "Idle" /\ StateNext = "Extracting") => ~cancelled]_vars
    /\ [][(State = "Extracting" /\ StateNext \in {"Idle", "BackingOff"}) => ~cancelled]_vars
    /\ [][(CommitFailed \/ metrics'.transformErrors # metrics.transformErrors) =>
             (pc' = pc /\ StateNext \in {"Transforming", "Loading", "Committing"})]_vars
    /\ [][State = "Stopped" => StateNext = "Stopped"]_vars

\* the loop went through a failed load, a backoff, a second batch that was
\* loaded and committed, and stopped on cancel
C28_Witness ==
    /\ State = "Stopped"
    /\ cancelled
    /\ Len(loadCalls) = 2
    /\ ~loadCalls[1].ok
    /\ loadCalls[2].ok
    /\ Len(commits) = 1
    /\ ready

\* ---------------------------------------------------------- termination

\* ExtractBatch, in a run in which at most MaxFairMsgs messages are extracted
ExtractBatchFair == ExtractBatch /\ Len(msgs') <= MaxFairMsgs

\* a step of the goroutine that executes Run
RunStep ==
    \/ RunStart
    \/ LoopTop
    \/ ExtractError
    \/ ExtractEmpty
    \/ ExtractBatchFair
    \/ TransformOk
    \/ TransformErr
    \/ TransformedNone
    \/ LoadFail
    \/ LoadOk
    \/ CommitLoaded
    \/ MarkReady
    \/ BackoffCheck
    \/ SleepDone
    \/ SleepCancelled

NextFair ==
    \/ Cancel
    \/ RunStep

\* Run under a scheduler that keeps running its goroutine, with an Extractor,
\* a Transformer, a Loader and Commit closures that return: the call in
\* progress returns and the timer of a sleep fires
SpecFair == Init /\ [][NextFair]_vars /\ WF_vars(RunStep)

\* C29 as stated: once the context is cancelled Run eventually returns, and a
\* cancellation that arrives during a backoff sleep ends the loop without
\* completing the sleep and without advancing the backoff delay.
C29_CancelEndsSleep ==
    /\ cancelled ~> pc = "done"
    /\ [][(pc = "sleep" /\ cancelled) => (pc' = "done" /\ backoff' = backoff)]_vars

\* C29, amended: once the context is cancelled Run eventually returns, with
\* nil. A cancellation that arrives during a backoff sleep ends the loop
\* without another ExtractBatch call: either the select in sleepWithContext
\* takes ctx.Done() and Run returns with the backoff delay as it was, or the
\* timer has fired as well and select takes it, the delay is advanced once
\* and Run returns at the top of the loop.
C29_TerminatesOnCancel ==
    /\ cancelled ~> (pc = "done" /\ runResult = "nil")
    /\ [][(pc = "sleep" /\ cancelled) =>
            \/ pc' = "done" /\ backoff' = backoff /\ runResult' = "nil"
            \/ pc' = "loopTop" /\ backoff' = nextBackoff(backoff, MaxBackoff)]_vars
    /\ [][(pc = "loopTop" /\ cancelled) => (pc' = "done" /\ backoff' = backoff)]_vars
    /\ [][backoff' # backoff => (pc = "sleep" \/ pc' = "transform" \/ pc = "start")]_vars

\* the context was cancelled during the second backoff sleep in a row
C29_Witness ==
    /\ pc = "sleep"
    /\ cancelled
    /\ streak = 1
    /\ backoff = 400

\* ------------------------------------------------------- the backoff table

\* the delay docs/Performance.md lists for the k-th consecutive failure
DocumentedDelay(k) ==
    IF k = 1 THEN 200 ELSE IF k = 2 THEN 400 ELSE IF k = 3 THEN 800
    ELSE IF k = 4 THEN 1600 ELSE 5000

\* the failures in a row at a backoff sleep: the sleeps completed since the
\* backoff was last reset, and the one in progress
FailuresInARow == streak + 1

ExtractedBatchStep == pc = "extract" /\ pc' = "transform"
ExtractedEmptyStep ==
    /\ pc = "extract"
    /\ pc' \in {"loopTop", "done"}
    /\ msgs' = msgs
    /\ ~(cancelled /\ pc' = "loopTop")

\* C31: the backoff delay is put back to 200 ms by every step in which
\* ExtractBatch returns a non-empty batch, and by no other step of the loop:
\* the only other change of the delay is the advance after a completed sleep.
\* An extract error and an empty batch leave the delay as it is, and an empty
\* batch leads to the top of the loop (or to the return of Run on a cancelled
\* context), never to the backoff or its sleep.
C31_BackoffReset ==
    /\ [][ExtractedBatchStep => (backoff' = InitialBackoff /\ streak' = 0)]_vars
    /\ [][(backoff' # backoff) =>
             \/ ExtractedBatchStep /\ backoff' = InitialBackoff
             \/ pc = "sleep" /\ pc' = "loopTop"
                   /\ backoff' = nextBackoff(backoff, MaxBackoff)]_vars
    /\ [][ExtractFailedStep => (backoff' = backoff /\ streak' = streak)]_vars
    /\ [][(pc = "extract" /\ pc' \notin {"extract", "transform", "backoff"}) =>
             /\ ExtractedEmptyStep
             /\ backoff' = backoff
             /\ streak' = streak
             /\ pc' = (IF cancelled THEN "done" ELSE "loopTop")]_vars

\* a first batch failed to load, the loop slept (which advanced the delay to
\* 400 ms) and a second non-empty batch has just been extracted: the delay is
\* 200 ms again
C31_Witness ==
    /\ pc = "transform"
    /\ idx = 1
    /\ Len(msgs) = 2
    /\ rawBatch = <<2>>
    /\ Len(loadCalls) = 1
    /\ ~loadCalls[1].ok
    /\ backoff = InitialBackoff
    /\ streak = 0

\* ------------------------------------------------------- no empty LoadBatch

\* the transform loop over the extracted batch ended in this step with no
\* message transformed
AllFailedStep ==
    /\ pc = "transform"
    /\ idx > Len(rawBatch)
    /\ Len(outBatch) = 0
    /\ pc' # pc

\* C32: every LoadBatch call is passed the non-empty output batch of the
\* iteration.  An iteration whose extracted batch is empty, or whose messages
\* all fail Transform, ends at the top of the loop (or with the return of Run)
\* without a load call, without the backoff or its sleep, with
\* messages_produced_total and the readiness flag as they were.
C32_NoEmptyLoad ==
    /\ [][(loadCalls' # loadCalls) =>
             /\ Len(outBatch) > 0
             /\ loadCalls' = Append(loadCalls, loadCalls'[Len(loadCalls')])
             /\ loadCalls'[Len(loadCalls')].batch = outBatch]_vars
    /\ [][(ExtractedEmptyStep \/ AllFailedStep) =>
             /\ loadCalls' = loadCalls
             /\ pc' \in {"loopTop", "done"}
             /\ backoff' = backoff
             /\ streak' = streak
             /\ metrics'.produced = metrics.produced
             /\ ready' = ready]_vars
    /\ [][(pc = "transform" /\ Len(outBatch') = 0) => loadCalls' = loadCalls]_vars

\* two messages were extracted and both failed Transform: the loop is back at
\* its top, nothing was loaded, nothing produced, and the pipeline is not ready
C32_Witness ==
    /\ pc = "loopTop"
    /\ Len(msgs) = 2
    /\ rawBatch = <<1, 2>>
    /\ poison = {1, 2}
    /\ metrics.transformErrors = 2
    /\ loadCalls = <<>>
    /\ metrics.produced = 0
    /\ ~ready
    /\ streak = 0

\* ------------------------------------------------------ counter consistency

\* a LoadBatch call returned nil in this step
LoadSucceededStep ==
    /\ Len(loadCalls') = Len(loadCalls) + 1
    /\ loadCalls'[Len(loadCalls')].ok

\* C33: messages_produced_total + transform_errors_total never exceeds
\* messages_consumed_total.  The consumed counter grows by the length of the
\* batch in every step that extracts a non-empty batch and in no other step;
\* the transform-error counter grows by one in every step in which Transform
\* fails for a message and in no other; the produced counter grows by the
\* length of the output batch in every step in which LoadBatch succeeds and
\* in no other, so a failed load and a failed extract leave it unchanged.
C33_CounterConsistency ==
    /\ [](metrics.produced + metrics.transformErrors <= metrics.consumed)
    /\ [][ExtractedBatchStep =>
             /\ Len(rawBatch') > 0
             /\ metrics'.consumed = metrics.consumed + Len(rawBatch')]_vars
    /\ [][(metrics'.consumed # metrics.consumed) => ExtractedBatchStep]_vars
    /\ [][(poison' # poison) =>
             /\ pc = "transform" /\ idx <= Len(rawBatch)
             /\ poison' = poison \cup {rawBatch[idx]}
             /\ rawBatch[idx] \notin poison
             /\ metrics'.transformErrors = metrics.transformErrors + 1]_vars
    /\ [][(metrics'.transformErrors # metrics.transformErrors) =>
             (poison' # poison /\ outBatch' = outBatch)]_vars
    /\ [][LoadSucceededStep =>
             metrics'.produced = metrics.produced + Len(outBatch)]_vars
    /\ [][(metrics'.produced # metrics.produced) => LoadSucceededStep]_vars
    /\ [][(LoadFailedStep \/ ExtractFailedStep) => metrics' = metrics]_vars

\* of a batch of two messages one failed Transform and the other was
\* transformed, and the LoadBatch call failed: two consumed, one transform
\* error, none produced
C33_Witness ==
    /\ pc = "backoff"
    /\ rawBatch = <<1, 2>>
    /\ poison = {1}
    /\ Len(loadCalls) = 1
    /\ loadCalls[1] = [batch |-> <<2>>, ok |-> FALSE]
    /\ metrics.consumed = 2
    /\ metrics.transformErrors = 1
    /\ metrics.produced = 0

\* ================================================== lruCache, any capacity

\* The lruCache on its own, for every maxEntries from 1 to MaxEntries: get and
\* put are called in any order; opLog keeps the kind of the last call, the
\* place its key had in the list (0 when absent) and the value put or got, and used the keys used last,
\* as many as the cache holds.

\* the entries reached from e by following the next (or prev) pointers
RECURSIVE Chain(_, _, _, _)
Chain(c, e, link, fuel) ==
    IF e = NIL \/ fuel = 0
       THEN <<>>
       ELSE <<e>> \o Chain(c, IF link = "next" THEN c.heap[e].next ELSE c.heap[e].prev,
                           link, fuel - 1)

\* the list from head to tail, from tail to head, and the keys of a list
FromHead(c) == Chain(c, c.head, "next", Len(c.heap) + 1)
FromTail(c) == Chain(c, c.tail, "prev", Len(c.heap) + 1)
KeysOf(c, es) == [i \in 1 .. Len(es) |-> c.heap[es[i]].key]
Reverse(s) == [i \in 1 .. Len(s) |-> s[Len(s) + 1 - i]]

\* newLRUCache(n) for some n from 1 to MaxEntries
InitList ==
    /\ PipelineInit
    /\ XformIdle
    /\ \E n \in 1 .. MaxEntries : cache = newLRUCache(n)
    /\ used = <<>>
    /\ opLog = <<>>
    /\ answered = <<>>
    /\ lastOutcome = <<>>
    /\ lastLookup = [n |-> 0, method |-> "none", key |-> "", prev |-> "none", hit |-> FALSE,
                     innerCalled |-> FALSE, inner |-> [err |-> "", result |-> ZeroResult],
                     result |-> ZeroResult, err |-> ""]
    /\ mu = NIL
    /\ callers = <<>>

\* the place of key k in the list from the head, 0 when it is absent
Place(c, k) ==
    LET keys == KeysOf(c, FromHead(c))
    IN  IF \E i \in 1 .. Len(keys) : keys[i] = k
           THEN CHOOSE i \in 1 .. Len(keys) : keys[i] = k
           ELSE 0

\* the n most recently used keys after a use of k
Recent(u, k, n) == SubSeq(Touch(u, k), 1, Min(n, Len(Touch(u, k))))

\* a caller invokes c.get(k)
ListGet(k) ==
    /\ LET r == get(cache, k)
       IN  /\ cache' = r.cache
           /\ used' = IF r.ok THEN Recent(used, k, cache.maxEntries) ELSE used
           /\ opLog' = <<[op |-> "get", place |-> Place(cache, k), value |-> r.value]>>
    /\ UNCHANGED <<vars, concVars, geoVars, xformVars>>

\* the keys in the order in which the callers first use them: the cache only
\* compares keys, so which key comes first does not matter
KeyOrder == <<"a", "b", "c", "d">>
Allocated(c) == {c.heap[i].key : i \in 1 .. Len(c.heap)}
NextKey(c, k) ==
    \E i \in 1 .. Len(KeyOrder) :
       /\ KeyOrder[i] = k
       /\ \A j \in 1 .. Len(KeyOrder) : KeyOrder[j] \in Allocated(c) <=> j < i

\* a caller invokes c.put(k, v): an update of a present key, or an insert of
\* a key put before or of the next new key
ListPut(k, v) ==
    /\ \/ k \in DOMAIN cache.entries
       \/ Len(cache.heap) < MaxAllocs /\ (k \in Allocated(cache) \/ NextKey(cache, k))
    /\ cache' = put(cache, k, v)
    /\ used' = Recent(used, k, cache.maxEntries)
    /\ opLog' = <<[op |-> "put", place |-> Place(cache, k), value |-> v]>>
    /\ UNCHANGED <<vars, concVars, geoVars, xformVars>>

NextList ==
    \/ \E k \in Keys : ListGet(k)
    \/ \E k \in Keys, v \in {ResultA, ResultB} : ListPut(k, v)

SpecList == InitList /\ [][NextList]_allVars

\* this step is a put on a key that is present
PutExisting ==
    /\ opLog' # <<>>
    /\ opLog'[1].op = "put"
    /\ opLog'[1].place > 0

\* C34: a put on a key that is already present replaces its value, makes it
\* the head of the list, removes no key and allocates no entry; the number of
\* entries is unchanged, the other keys keep their values and their order in
\* the list, and a get of the key on the cache after the put returns the new
\* value.
C34_UpdateInPlace ==
    [][PutExisting =>
          LET k == KeysOf(cache, FromHead(cache))[opLog'[1].place]
              v == opLog'[1].value
              keys == KeysOf(cache, FromHead(cache))
              keys1 == KeysOf(cache', FromHead(cache'))
          IN  /\ DOMAIN cache'.entries = DOMAIN cache.entries
              /\ Len(cache'.heap) = Len(cache.heap)
              /\ Len(keys1) = Len(keys)
              /\ keys1 = Touch(keys, k)
              /\ cache'.heap[cache'.head].key = k
              /\ cache'.heap[cache'.head].value = v
              /\ get(cache', k).ok
              /\ get(cache', k).value = v
              /\ \A j \in DOMAIN cache.entries \ {k} :
                    get(cache', j).value = get(cache, j).value]_allVars

\* a cache of capacity 3 held a as the last of three keys, and put(a, ResultB)
\* has made the list a, c, b
C34_Witness ==
    /\ cache.maxEntries = 3
    /\ opLog # <<>>
    /\ opLog[1].op = "put" /\ opLog[1].place = 3
    /\ opLog[1].value = ResultB
    /\ KeysOf(cache, FromHead(cache)) = <<"a", "c", "b">>
    /\ get(cache, "a").value = ResultB
    /\ Len(cache.heap) = 3

\* C35: in an lruCache with maxEntries >= 1, after any sequence of get and
\* put, the list from head to tail holds exactly the keys of the entries map,
\* each once, every key of the map pointing at its own entry; the list read
\* from the tail along prev is the list from the head along next reversed,
\* the head has no prev and the tail no next; the list is ordered from the
\* most to the least recently used key; head and tail are nil exactly when
\* the map is empty; and the map never holds more than maxEntries keys.
C35_ListInvariant ==
    LET fwd == FromHead(cache)
        bwd == FromTail(cache)
        n == Cardinality(DOMAIN cache.entries)
    IN  /\ cache.maxEntries >= 1
        /\ Len(fwd) = n
        /\ {cache.heap[fwd[i]].key : i \in 1 .. Len(fwd)} = DOMAIN cache.entries
        /\ \A k \in DOMAIN cache.entries :
              /\ cache.entries[k] \in 1 .. Len(cache.heap)
              /\ cache.heap[cache.entries[k]].key = k
              /\ \E i \in 1 .. Len(fwd) : fwd[i] = cache.entries[k]
        /\ bwd = Reverse(fwd)
        /\ cache.head # NIL => cache.heap[cache.head].prev = NIL
        /\ cache.tail # NIL => cache.heap[cache.tail].next = NIL
        /\ KeysOf(cache, fwd) = used
        /\ (cache.head = NIL) = (n = 0)
        /\ (cache.tail = NIL) = (n = 0)
        /\ n <= cache.maxEntries

\* a full cache of capacity 3 after an eviction, a get that moved the tail to
\* the front and a put that replaced a value in the middle
C35_Witness ==
    /\ cache.maxEntries = 3
    /\ Len(cache.heap) = 4
    /\ Cardinality(DOMAIN cache.entries) = 3
    /\ opLog[1].op = "get"
    /\ opLog[1].place = 3
    /\ \E i \in 2 .. 3 : cache.heap[FromHead(cache)[i]].value = ResultB

\* ============================================= CachedGeocoder, concurrently

\* Goroutines call ForwardGeocode and ReverseGeocode on one CachedGeocoder.
\* A call is: cache.get (Lock, look the key up in the map; moveToFront,
\* Unlock), on a miss the call of the inner geocoder without the lock, and
\* for a result with an address cache.put (Lock, look the key up; update or
\* insert, Unlock).

Callers == 1 .. NumCallers

\* the calls the goroutines make: method and cache key
ConcCalls ==
    {<<"forward", FwdKey("AUSTIN", "TX")>>,
     <<"forward", FwdKey("A|B", "C")>>,
     <<"reverse", RevKey(Num(302672001), Num(-977431000))>>}

IdleCaller ==
    [pc |-> "idle", method |-> "none", key |-> "", found |-> NIL, value |-> ZeroResult,
     n |-> 0, hit |-> FALSE, stored |-> FALSE]

InitConc ==
    /\ PipelineInit
    /\ XformIdle
    /\ cache = newLRUCache(CacheCap)
    /\ used = <<>>
    /\ opLog = <<>>
    /\ answered = <<>>
    /\ lastOutcome = <<>>
    /\ lastLookup = [n |-> 0, method |-> "none", key |-> "", prev |-> "none", hit |-> FALSE,
                     innerCalled |-> FALSE, inner |-> [err |-> "", result |-> ZeroResult],
                     result |-> ZeroResult, err |-> ""]
    /\ mu = NIL
    /\ callers = [t \in Callers |-> IdleCaller]

\* calls started so far
RECURSIVE CallsOf(_)
CallsOf(t) == IF t = 0 THEN 0 ELSE callers[t].n + CallsOf(t - 1)

\* e, ok := c.entries[key]
lookup(c, key) == IF key \in DOMAIN c.entries THEN c.entries[key] ELSE NIL

concFrame == UNCHANGED <<vars, used, opLog, geoVars, xformVars>>

\* goroutine t enters ForwardGeocode or ReverseGeocode and builds the key
CallGeocode(t, call) ==
    /\ callers[t].pc = "idle"
    /\ CallsOf(NumCallers) < MaxCalls
    /\ callers' = [callers EXCEPT ![t] =
                      [pc |-> "get", method |-> call[1], key |-> call[2], found |-> NIL,
                       value |-> ZeroResult, n |-> callers[t].n + 1,
                       hit |-> FALSE, stored |-> FALSE]]
    /\ UNCHANGED <<cache, mu>>
    /\ concFrame

\* c.mu.Lock() entered without waiting for the holder to unlock
Lock_NoWait(t, at, then) ==
    /\ callers[t].pc = at
    /\ mu' = t
    /\ callers' = [callers EXCEPT ![t].pc = then,
                                  ![t].found = lookup(cache, callers[t].key)]
    /\ UNCHANGED cache
    /\ concFrame

\* get and put: c.mu.Lock() returns once the mutex is free, and the key is
\* looked up in the map
Lock(t, at, then) ==
    /\ callers[t].pc = at
    /\ mu = NIL
    /\ mu' = t
    /\ callers' = [callers EXCEPT ![t].pc = then,
                                  ![t].found = lookup(cache, callers[t].key)]
    /\ UNCHANGED cache
    /\ concFrame

\* get: on a hit moveToFront(e) and return e.value, on a miss return false;
\* the deferred Unlock runs.  A hit ends the call.
GetReturn(t) ==
    /\ callers[t].pc = "get.locked"
    /\ mu' = NIL
    /\ IF callers[t].found # NIL
          THEN /\ cache' = moveToFront(cache, callers[t].found)
               /\ callers' = [callers EXCEPT ![t].pc = "idle", ![t].hit = TRUE,
                                             ![t].value = cache.heap[callers[t].found].value,
                                             ![t].found = NIL]
          ELSE /\ cache' = cache
               /\ callers' = [callers EXCEPT ![t].pc = "inner"]
    /\ concFrame

\* the inner geocoder returns: an error or a result without an address ends
\* the call, any other result is put
InnerReturn(t, out) ==
    /\ callers[t].pc = "inner"
    /\ callers' = [callers EXCEPT ![t].pc = IF out.err = "" /\ out.result.addr # ""
                                               THEN "put" ELSE "idle",
                                  ![t].value = out.result]
    /\ UNCHANGED <<cache, mu>>
    /\ concFrame

\* put: the entry found is updated and promoted, or a new one is inserted;
\* the deferred Unlock runs and the call returns
PutReturn(t) ==
    /\ callers[t].pc = "put.locked"
    /\ mu' = NIL
    /\ cache' = IF callers[t].found # NIL
                   THEN update(cache, callers[t].found, callers[t].value)
                   ELSE insert(cache, callers[t].key, callers[t].value)
    /\ callers' = [callers EXCEPT ![t].pc = "idle", ![t].stored = TRUE, ![t].found = NIL]
    /\ concFrame

GetLock(t) == Lock(t, "get", "get.locked")
PutLock(t) == Lock(t, "put", "put.locked")

NextConc ==
    \E t \in Callers :
       \/ \E call \in ConcCalls : CallGeocode(t, call)
       \/ GetLock(t)
       \/ GetReturn(t)
       \/ \E out \in InnerOutcomes : InnerReturn(t, out)
       \/ PutLock(t)
       \/ PutReturn(t)

SpecConc == InitConc /\ [][NextConc]_allVars

\* caller t is inside get or put, between Lock and Unlock
Inside(t) == callers[t].pc \in {"get.locked", "put.locked"}

\* the list and the map of the cache agree: the walk from the head visits
\* one entry per key of the map, the entry the map holds for it, and the walk
\* from the tail is its reverse
ListIsMap(c) ==
    LET fwd == FromHead(c)
    IN  /\ Len(fwd) = Cardinality(DOMAIN c.entries)
        /\ \A i, j \in 1 .. Len(fwd) : c.heap[fwd[i]].key = c.heap[fwd[j]].key => i = j
        /\ \A k \in DOMAIN c.entries :
              /\ c.heap[c.entries[k]].key = k
              /\ \E i \in 1 .. Len(fwd) : fwd[i] = c.entries[k]
        /\ FromTail(c) = Reverse(fwd)
        /\ (c.head = NIL) = (DOMAIN c.entries = {})
        /\ (c.tail = NIL) = (DOMAIN c.entries = {})

\* C36: under every interleaving of concurrent ForwardGeocode and
\* ReverseGeocode calls on one CachedGeocoder at most one goroutine is inside
\* get or put at a time, and it is the holder of the mutex; in every
\* reachable state the cache holds at most maxEntries keys and its list and
\* its map agree, so every key has exactly one entry, also after misses of
\* several goroutines on the same key; and what a caller found in the map is
\* still the map's entry for its key when it acts on it.
C36_MutualExclusion ==
    /\ \A t1, t2 \in Callers : (Inside(t1) /\ Inside(t2)) => t1 = t2
    /\ \A t \in Callers : Inside(t) <=> mu = t
    /\ Cardinality(DOMAIN cache.entries) <= cache.maxEntries
    /\ ListIsMap(cache)
    /\ \A t \in Callers : Inside(t) => callers[t].found = lookup(cache, callers[t].key)

\* two goroutines missed on the same key at the same time, both called the
\* inner geocoder and both put its result: one entry was allocated, and the
\* cache holds the key once
C36_Witness ==
    /\ \A t \in {1, 2} :
          /\ callers[t].pc = "idle"
          /\ callers[t].n = 1
          /\ callers[t].key = FwdKey("AUSTIN", "TX")
          /\ ~callers[t].hit
          /\ callers[t].stored
    /\ Len(cache.heap) = 1
    /\ DOMAIN cache.entries = {FwdKey("AUSTIN", "TX")}
    /\ KeysOf(cache, FromHead(cache)) = <<FwdKey("AUSTIN", "TX")>>

\* ------------------------------------------------- non-negative magnitude

\* C37: every event produced by ParseRawEvent and EnrichStormEvent has a
\* magnitude that is a number greater than or equal to 0, whatever the
\* magnitude string of the raw record.
C37_NonNegativeMagnitude ==
    AfterEnrich => FGe(event.magnitude, 0)

\* ========================================= EnrichStormEvent, by measurement

\* EnrichStormEvent applied to an event of every type, unit and magnitude
\* below: the thresholds of normalizeMagnitude and deriveSeverity, the values
\* next to them, a zero, a negative and the non-finite values.

MeasureTypes == {"hail", "wind", "tornado", "", "snow"}
MeasureUnits == {"", "in", "cm", " IN "}
Magnitudes ==
    {Num(Mag(w, h)) : w \in {0, 1, 2}, h \in {0, 49, 50, 74, 75}}
    \cup {Num(Mag(w, 0)) : w \in {3, 4, 5, 10, 50, 74, 96, 175, 800, 1500}}
    \cup {Num(Mag(w, 99)) : w \in {9, 49, 73, 95}}
    \cup {Num(Mag(4, 50)), Num(Mag(10, 1)), Num(-Mag(5, 0)), NaN, Inf(1), Inf(-1)}

InitMeasure ==
    /\ PipelineInit
    /\ CacheInit
    /\ raw \in {[json |-> "object", rec |-> ZeroRec, timestamp |-> ts] : ts \in Timestamps}
    /\ geocoder = "nil"
    /\ stage = "parsed"
    /\ \E et \in MeasureTypes, u \in MeasureUnits, m \in Magnitudes :
          event = [ZeroEvent EXCEPT !.eventType = et, !.unit = u, !.magnitude = m]
    /\ before = ZeroEvent
    /\ providerCalls = <<>>
    /\ clock = 1
    /\ output = [returned |-> FALSE, err |-> "", out |-> ZeroOutput]

NextMeasure == TransformEnrich

SpecMeasure == InitMeasure /\ [][NextMeasure]_allVars

\* EnrichStormEvent has returned; the event is hail measured in inches
Enriched == stage = "enriched"
HailInInches == event.eventType = "hail" /\ event.unit = "in"

\* C38: for a hail event whose unit is "in", given or inferred from the type,
\* a magnitude from 10 to 800 is replaced by the magnitude divided by 100 and
\* a magnitude from 0 up to, not including, 10 is kept; a zero magnitude is
\* kept whatever the type; and the magnitude of a wind event, a tornado
\* event, an event of an unrecognized type or a hail event with another unit
\* is kept as it is.
C38_HailCorrection ==
    Enriched =>
        /\ (HailInInches /\ FGe(before.magnitude, Mag(10, 0))
                         /\ FLe(before.magnitude, Mag(800, 0)) /\ FFinite(before.magnitude)) =>
              /\ event.magnitude.k = "num"
              /\ event.magnitude.v * 100 = before.magnitude.v
        /\ (HailInInches /\ FGe(before.magnitude, 0) /\ FLt(before.magnitude, Mag(10, 0))) =>
              event.magnitude = before.magnitude
        /\ FIsZero(before.magnitude) => event.magnitude = before.magnitude
        /\ ~HailInInches => event.magnitude = before.magnitude

\* a hail event without a unit and with magnitude 800 was enriched: the unit
\* is inferred to be inches and the magnitude is 8
C38_Witness ==
    /\ Enriched
    /\ before.eventType = "hail"
    /\ before.unit = ""
    /\ before.magnitude = Num(Mag(800, 0))
    /\ event.unit = "in"
    /\ event.magnitude = Num(Mag(8, 0))

\* the event has this severity label
Severity(label) == event.severity = <<label>>

\* C39: for a non-zero magnitude m (after normalizeMagnitude), hail is minor
\* for m < 0.75, moderate for 0.75 <= m < 1.5, severe for 1.5 <= m < 2.5 and
\* extreme for m >= 2.5; wind is minor for m < 50, moderate for
\* 50 <= m < 74, severe for 74 <= m < 96 and extreme for m >= 96; tornado is
\* minor for m <= 1, moderate for m = 2, severe for any other m <= 4 and
\* extreme for m >= 5.  The thresholds of hail and wind belong to the higher
\* class.
C39_SeverityTable ==
    (Enriched /\ ~FIsZero(event.magnitude)) =>
        LET m == event.magnitude
        IN  /\ event.eventType = "hail" =>
                  /\ FLt(m, Mag(0, 75)) => Severity("minor")
                  /\ (FGe(m, Mag(0, 75)) /\ FLt(m, Mag(1, 50))) => Severity("moderate")
                  /\ (FGe(m, Mag(1, 50)) /\ FLt(m, Mag(2, 50))) => Severity("severe")
                  /\ FGe(m, Mag(2, 50)) => Severity("extreme")
            /\ event.eventType = "wind" =>
                  /\ FLt(m, Mag(50, 0)) => Severity("minor")
                  /\ (FGe(m, Mag(50, 0)) /\ FLt(m, Mag(74, 0))) => Severity("moderate")
                  /\ (FGe(m, Mag(74, 0)) /\ FLt(m, Mag(96, 0))) => Severity("severe")
                  /\ FGe(m, Mag(96, 0)) => Severity("extreme")
            /\ event.eventType = "tornado" =>
                  /\ FLe(m, Mag(1, 0)) => Severity("minor")
                  /\ FEq(m, Mag(2, 0)) => Severity("moderate")
                  /\ (FLe(m, Mag(4, 0)) /\ ~FLe(m, Mag(1, 0)) /\ ~FEq(m, Mag(2, 0))) =>
                        Severity("severe")
                  /\ FGe(m, Mag(5, 0)) => Severity("extreme")

\* a wind event of exactly 74 mph was enriched and is severe
C39_Witness ==
    /\ Enriched
    /\ before.eventType = "wind"
    /\ before.magnitude = Num(Mag(74, 0))
    /\ event.magnitude = Num(Mag(74, 0))
    /\ Severity("severe")
====
